---- MODULE Spec2Model ----
(***************************************************************************)
(* Santorini game engine (src/src/santorini.rs): Point encoding, the       *)
(* bit-packed Board, the phase-typed Game state machine and its legal      *)
(* action enumeration.                                                     *)
(*                                                                         *)
(* A u64 word of the board is kept as its sixteen 4-bit fields             *)
(* (field i = bits 4i..4i+3).  Every shift amount the source computes is a *)
(* Point nibble or a sum of differences of Point nibbles, i.e. a multiple  *)
(* of four bits, so a shift by `off` bits is a shift by off \div 4 fields. *)
(* The u64 of ACTION_LOOKUP_TABLE is kept as its eight bytes.              *)
(*                                                                         *)
(* Specifications:                                                         *)
(*   Spec        a game as the players of src/player drive it              *)
(*   AISpec      a game between players that never resign                  *)
(*   EngineSpec  a game under every call the engine's interface allows     *)
(*   BoardSpec   Board::new, build, cap on their own (board_tests)         *)
(*   PointSpec   Point::new_, x, y and Pawn::neighbors (point_tests)       *)
(*   ScriptSpec  the call sequence of game_tests::victory                  *)
(*   ReuseSpec   a game whose caller keeps an action and applies it later  *)
(*   TreeSpec    Node::new, expand, step and Mcts::advance on a small game *)
(*   AdvanceSpec the runs of TreeSpec, for the root replacement of advance *)
(*   SearchSpec  a game between the MCTS player and another player         *)
(*   PlayoutSpec playouts of the search from the states of a played game   *)
(*   TwinSpec    two searches run from the same state, budget and rng seed *)
(*   DriverSpec  the turn protocol of the game driver over its players     *)
(***************************************************************************)
EXTENDS Integers, Sequences, FiniteSets, TLC

VARIABLES game, last_op, builds, point_tests, board_tests, script, held, tree, ai,
          playout, twin, driver

vars == <<game, last_op, builds, point_tests, board_tests, script, held, tree, ai,
          playout, twin, driver>>

\* the state of a played game
game_vars == <<game, last_op, builds>>

\* the state of the harnesses around the action contract and the tree search
aux_vars == <<held, tree, ai, playout, twin, driver>>

\* the state of the unit-test harnesses (Point, Board, scripted game)
\* and of every other harness
test_vars == <<point_tests, board_tests, script, aux_vars>>

(***************************************************************************)
(* Bounds of the exploration.  The players of the explored games only     *)
(* pick moves and builds whose target lies in the arena (the 2x3 corner    *)
(* region ArenaCells, the smallest region in which a player can be         *)
(* stalemated), place their pawns on the first PlaceSize cells of it, and  *)
(* stop building after MaxBuilds builds.  Legality itself (can_move,       *)
(* can_build, actions, the stalemate test) is always computed on the full  *)
(* 5x5 board, and the properties quantify over all 25 cells.               *)
(***************************************************************************)
PlaceSize == 4

MaxBuilds == 5

(***************************************************************************)
(* Coord, Point                                                            *)
(***************************************************************************)
BOARD_WIDTH == 5

BOARD_HEIGHT == 5

None == [tag |-> "None"]

Some(v) == [tag |-> "Some", val |-> v]

Abs(n) == IF n < 0 THEN -n ELSE n

Max(a, b) == IF a >= b THEN a ELSE b

\* Point::x
X(p) == (p.word * 16 + p.nibble \div 4) % BOARD_WIDTH

\* Point::y
Y(p) == (p.word * 16 + p.nibble \div 4) \div BOARD_WIDTH

\* Point::new_, had its upper bound tests been > instead of >=
PointNew__InclusiveBound(x, y) ==
    IF x > BOARD_WIDTH \/ x < 0 \/ y > BOARD_HEIGHT \/ y < 0
    THEN None
    ELSE LET offset == BOARD_WIDTH * y + x
         IN  Some([word |-> offset \div 16, nibble |-> 4 * (offset % 16)])

\* Point::new_ : None when out of bounds
PointNew_(x, y) ==
    IF x >= BOARD_WIDTH \/ x < 0 \/ y >= BOARD_HEIGHT \/ y < 0
    THEN None
    ELSE LET offset == BOARD_WIDTH * y + x
         IN  Some([word |-> offset \div 16, nibble |-> 4 * (offset % 16)])

\* Point::new : panics when out of bounds
PointNew(x, y) ==
    LET r == PointNew_(x, y)
    IN  IF r.tag = "Some" THEN r.val ELSE [panic |-> "invalid point"]

\* Point::distance (L-infinity)
Distance(p, q) == Max(Abs(X(q) - X(p)), Abs(Y(q) - Y(p)))

\* Point::taxicab
Taxicab(p, q) == Abs(X(q) - X(p)) + Abs(Y(q) - Y(p))

AllPoints == { PointNew(x, y) : x \in 0..(BOARD_WIDTH - 1), y \in 0..(BOARD_HEIGHT - 1) }

(***************************************************************************)
(* 4-bit field arithmetic                                                  *)
(***************************************************************************)
Bit(n, i) == (n \div (2 ^ i)) % 2

AndNibTable ==
    [a \in 0..15 |-> [b \in 0..15 |->
        Bit(a, 0) * Bit(b, 0) + 2 * Bit(a, 1) * Bit(b, 1)
        + 4 * Bit(a, 2) * Bit(b, 2) + 8 * Bit(a, 3) * Bit(b, 3)]]

OrNibTable ==
    [a \in 0..15 |-> [b \in 0..15 |-> a + b - AndNibTable[a][b]]]

XorNibTable ==
    [a \in 0..15 |-> [b \in 0..15 |-> a + b - 2 * AndNibTable[a][b]]]

ZeroWord == [i \in 0..15 |-> 0]

\* w >> off, off a multiple of 4 bits
Shr(w, off) == [i \in 0..15 |-> IF i + off \div 4 <= 15 THEN w[i + off \div 4] ELSE 0]

\* w << off, off a multiple of 4 bits
Shl(w, off) == [i \in 0..15 |-> IF i - off \div 4 >= 0 THEN w[i - off \div 4] ELSE 0]

WordAnd(a, b) == [i \in 0..15 |-> AndNibTable[a[i]][b[i]]]

WordOr(a, b) == [i \in 0..15 |-> OrNibTable[a[i]][b[i]]]

\* mask << nibble, for a 4-bit mask
FieldAt(mask, nibble) == [i \in 0..15 |-> IF i = nibble \div 4 THEN mask ELSE 0]

(***************************************************************************)
(* CoordLevel, Board                                                       *)
(***************************************************************************)
CoordLevel == {"Ground", "One", "Two", "Three", "Capped"}

\* impl From<CoordLevel> for i8
LevelToI8(l) ==
    CASE l = "Ground" -> 0
      [] l = "One" -> 1
      [] l = "Two" -> 2
      [] l = "Three" -> 3
      [] l = "Capped" -> 4

\* Board::new : grid = [0x1111_1111_1111_1111; 2]
BoardNew == [w \in 0..1 |-> [i \in 0..15 |-> 1]]

\* Board::level_at : (grid[word] >> nibble) & 0xF, decoded
level_at(board, loc) ==
    LET data == board[loc.word][loc.nibble \div 4]
    IN  CASE data = 1 -> "Ground"
          [] data = 2 -> "One"
          [] data = 4 -> "Two"
          [] data = 8 -> "Three"
          [] data = 0 -> "Capped"
          [] OTHER -> "Panic"

\* less_than_equals, had its masks selected one level instead of all lower ones
less_than_equals_ExactMask(board, loc, level) ==
    IF level = "Capped" THEN TRUE
    ELSE LET mask == CASE level = "Ground" -> 1
                       [] level = "One" -> 2
                       [] level = "Two" -> 4
                       [] level = "Three" -> 8
         IN  AndNibTable[board[loc.word][loc.nibble \div 4]][mask] # 0

\* Board::less_than_equals : grid[word] & (mask << nibble) != 0
less_than_equals(board, loc, level) ==
    IF level = "Capped" THEN TRUE
    ELSE LET mask == CASE level = "Ground" -> 1
                       [] level = "One" -> 3
                       [] level = "Two" -> 7
                       [] level = "Three" -> 15
         IN  AndNibTable[board[loc.word][loc.nibble \div 4]][mask] # 0

\* the xor mask of build, had the arm for level Two cleared the field
BuildMask_TwoToCapped(level) ==
    CASE level = 1 -> 3
      [] level = 2 -> 6
      [] level = 4 -> 4
      [] level = 8 -> 8
      [] OTHER -> -1

\* Board::build : the xor mask chosen by the match, -1 for its panic arms
BuildMask(level) ==
    CASE level = 1 -> 3
      [] level = 2 -> 6
      [] level = 4 -> 12
      [] level = 8 -> 8
      [] OTHER -> -1

\* build, had it ORed the mask into the word instead of XORing it
build_OrMask(board, loc) ==
    LET level == board[loc.word][loc.nibble \div 4]
        mask  == BuildMask(level)
    IN  IF mask < 0 THEN [panic |-> "Invalid build action!"]
        ELSE [grid |-> [board EXCEPT ![loc.word][loc.nibble \div 4] = OrNibTable[@][mask]]]

\* Board::build : grid[word] ^= mask << nibble ; [panic |-> ...] when the
\* cell is Capped or malformed
build(board, loc) ==
    LET level == board[loc.word][loc.nibble \div 4]
        mask  == BuildMask(level)
    IN  IF mask < 0 THEN [panic |-> "Invalid build action!"]
        ELSE [grid |-> [board EXCEPT ![loc.word][loc.nibble \div 4] = XorNibTable[@][mask]]]

\* Board::cap : grid[word] &= !(0xF << nibble)
cap(board, loc) ==
    [board EXCEPT ![loc.word][loc.nibble \div 4] = AndNibTable[@][0]]

IsPanic(v) == "panic" \in DOMAIN v

(***************************************************************************)
(* Player, Game<S>, Pawn<S>                                                *)
(***************************************************************************)
\* Player::other
Other(player) == IF player = "PlayerOne" THEN "PlayerTwo" ELSE "PlayerOne"

\* new_game
new_game == [phase |-> "PlaceOne", board |-> BoardNew, player |-> "PlayerOne"]

\* NormalState::player_locs (Move, Build, Victory)
player_locs(g, player) ==
    IF player = "PlayerOne" THEN g.player1_locs ELSE g.player2_locs

\* composite_board, had it capped PlayerOne's pawns only
composite_board_OnePlayer(g) ==
    LET l1 == player_locs(g, "PlayerOne")
    IN  cap(cap(g.board, l1[1]), l1[2])

\* Game::composite_board : the board with the four pawn cells capped
composite_board(g) ==
    LET l1 == player_locs(g, "PlayerOne")
        l2 == player_locs(g, "PlayerTwo")
    IN  cap(cap(cap(cap(g.board, l1[1]), l1[2]), l2[1]), l2[2])

\* CompositeBoard::check
check(composite, loc, max_height) == less_than_equals(composite, loc, max_height)

\* Game::player_pawns
player_pawns(g, player) ==
    LET locs == player_locs(g, player)
    IN  << [pos |-> locs[1], player |-> player], [pos |-> locs[2], player |-> player] >>

\* Game::active_pawns
active_pawns(g) == player_pawns(g, g.player)

\* Game::inactive_pawns
inactive_pawns(g) == player_pawns(g, Other(g.player))

\* Game::resign, had it kept the active player as the winner
resign_KeepsPlayer(g) ==
    [phase |-> "Victory",
     player1_locs |-> player_locs(g, "PlayerOne"),
     player2_locs |-> player_locs(g, "PlayerTwo"),
     board |-> g.board,
     player |-> g.player]

\* Game::resign
resign(g) ==
    [phase |-> "Victory",
     player1_locs |-> player_locs(g, "PlayerOne"),
     player2_locs |-> player_locs(g, "PlayerTwo"),
     board |-> g.board,
     player |-> Other(g.player)]

OFFSETS ==
    << <<-1, -1>>, <<0, -1>>, <<1, -1>>, <<-1, 0>>, <<1, 0>>, <<-1, 1>>, <<0, 1>>, <<1, 1>> >>

\* Pawn::neighbors, inner neighbors_table: the entry of cell (x, y), built
\* by the while loop over index
RECURSIVE NeighborsEntry(_, _, _, _)
NeighborsEntry(x, y, index, acc) ==
    IF index > 8 THEN acc
    ELSE LET r == PointNew_(x + OFFSETS[index][1], y + OFFSETS[index][2])
         IN  NeighborsEntry(x, y, index + 1,
                            IF r.tag = "Some" THEN Append(acc, r.val) ELSE acc)

\* Pawn::neighbors, static LOOKUP_TABLE
LOOKUP_TABLE ==
    [x \in 0..(BOARD_WIDTH - 1) |-> [y \in 0..(BOARD_HEIGHT - 1) |->
        NeighborsEntry(x, y, 1, <<>>)]]

\* Pawn::neighbors, had it indexed the table by [y][x]
neighbors_Transposed(pawn) == LOOKUP_TABLE[Y(pawn.pos)][X(pawn.pos)]

\* Pawn::neighbors
neighbors(pawn) == LOOKUP_TABLE[X(pawn.pos)][Y(pawn.pos)]

(***************************************************************************)
(* Move phase: lookup tables                                               *)
(***************************************************************************)
ZeroBytes == [i \in 0..7 |-> 0]

OrByte(a, b) == OrNibTable[a % 16][b % 16] + 16 * OrNibTable[a \div 16][b \div 16]

\* offset |= (diff as u64) << (count * 8), diff an i8 (sign-extended)
OrDiff(offset, diff, count) ==
    [i \in 0..7 |->
        IF i < count THEN offset[i]
        ELSE IF i = count THEN OrByte(offset[i], (diff + 256) % 256)
        ELSE IF diff < 0 THEN 255 ELSE offset[i]]

\* neighbors_table, the loop over index for one (word, nibble)
RECURSIVE ActionEntry(_, _, _, _, _)
ActionEntry(point, index, prev, offset, count) ==
    IF index > 8 THEN offset
    ELSE LET r == PointNew_(X(point) + OFFSETS[index][1], Y(point) + OFFSETS[index][2])
         IN  IF r.tag = "Some"
             THEN LET off == r.val.word * 64 + r.val.nibble
                  IN  ActionEntry(point, index + 1, off,
                                  OrDiff(offset, off - prev, count), count + 1)
             ELSE ActionEntry(point, index + 1, prev, offset, count)

\* neighbors_table / ACTION_LOOKUP_TABLE : [[u64; 61]; 2]
ACTION_LOOKUP_TABLE ==
    [word \in 0..1 |-> [nibble \in 0..60 |->
        LET point == [word |-> word, nibble |-> nibble]
        IN  IF nibble % 4 # 0 \/ Y(point) >= BOARD_HEIGHT
            THEN ZeroBytes
            ELSE ActionEntry(point, 1, 0, ZeroBytes, 0)]]

\* mask_table, the loop over index for one (word, nibble, level)
RECURSIVE MaskEntry(_, _, _, _)
MaskEntry(point, mask, index, entry) ==
    IF index > 8 THEN entry
    ELSE LET r == PointNew_(X(point) + OFFSETS[index][1], Y(point) + OFFSETS[index][2])
         IN  MaskEntry(point, mask, index + 1,
                 IF r.tag = "Some"
                 THEN [entry EXCEPT ![r.val.word] = WordOr(@, FieldAt(mask, r.val.nibble))]
                 ELSE entry)

\* mask_table / MASK_LOOKUP_TABLE : [[[[u64; 2]; 3]; 61]; 2]
MASK_LOOKUP_TABLE ==
    [word \in 0..1 |-> [nibble \in 0..60 |-> [level \in 0..2 |->
        LET point == [word |-> word, nibble |-> nibble]
            mask  == CASE level = 0 -> 3 [] level = 1 -> 7 [] level = 2 -> 15
        IN  IF nibble % 4 # 0 \/ Y(point) >= BOARD_HEIGHT
            THEN [w \in 0..1 |-> ZeroWord]
            ELSE MaskEntry(point, mask, 1, [w \in 0..1 |-> ZeroWord])]]]

(***************************************************************************)
(* Move phase: Pawn<Move>                                                  *)
(***************************************************************************)
\* level_limit, had it allowed a climb of two levels from Ground
level_limit_Plus2(g, pawn) ==
    LET l == level_at(g.board, pawn.pos)
    IN  CASE l = "Ground" -> "Two"
          [] l = "One" -> "Two"
          [] l = "Two" -> "Three"
          [] OTHER -> "Panic"

\* Pawn<Move>::level_limit
level_limit(g, pawn) ==
    LET l == level_at(g.board, pawn.pos)
    IN  CASE l = "Ground" -> "One"
          [] l = "One" -> "Two"
          [] l = "Two" -> "Three"
          [] OTHER -> "Panic"

\* MoveAction (debug build: bound to the game it was derived from)
MoveAction(from, to, g) == [from |-> from, to |-> to, game |-> g]

\* Pawn<Move>::can_move
can_move(g, pawn, to) ==
    IF pawn.player # g.player THEN None
    ELSE IF Distance(pawn.pos, to) # 1 THEN None
    ELSE IF level_limit(g, pawn) = "Panic" THEN [tag |-> "Panic"]
    ELSE IF ~check(composite_board(g), to, level_limit(g, pawn)) THEN None
    ELSE Some(MoveAction(pawn.pos, to, g))

\* Pawn<Move>::has_actions : the panic arm of its match on the pawn's level
has_actions_panics(g, pawn) ==
    level_at(g.board, pawn.pos) \notin {"Ground", "One", "Two"}

\* Pawn<Move>::has_actions, had it tested the plain board instead of the
\* composite
has_actions_PlainBoard(g, pawn) ==
    LET l == level_at(g.board, pawn.pos)
        mask == MASK_LOOKUP_TABLE[pawn.pos.word][pawn.pos.nibble][LevelToI8(l)]
    IN  IF WordAnd(g.board[0], mask[0]) # ZeroWord THEN TRUE
        ELSE IF WordAnd(g.board[1], mask[1]) # ZeroWord THEN TRUE
        ELSE FALSE

\* Pawn<Move>::has_actions (when it does not panic)
has_actions(g, pawn) ==
    LET l == level_at(g.board, pawn.pos)
        mask == MASK_LOOKUP_TABLE[pawn.pos.word][pawn.pos.nibble][LevelToI8(l)]
        composite == composite_board(g)
    IN  IF WordAnd(composite[0], mask[0]) # ZeroWord THEN TRUE
        ELSE IF WordAnd(composite[1], mask[1]) # ZeroWord THEN TRUE
        ELSE FALSE

\* ActionsIterator::next : the rest of the items the iterator yields
RECURSIVE IterCollect(_, _)
IterCollect(it, acc) ==
    IF it.offsets = ZeroBytes THEN acc
    ELSE LET off    == it.offsets[0]
             offs   == [i \in 0..7 |-> IF i < 7 THEN it.offsets[i + 1] ELSE 0]
             board  == Shr(it.board, off)
             nib    == it.to.nibble + off
             to     == IF Bit(nib, 6) # 0
                       THEN [word |-> 1, nibble |-> nib - 64]
                       ELSE [word |-> it.to.word, nibble |-> nib]
             it2    == [it EXCEPT !.offsets = offs, !.board = board, !.to = to]
         IN  IF AndNibTable[board[0]][it.mask] # 0
             THEN IterCollect(it2, Append(acc, MoveAction(it.from, to, it.game)))
             ELSE IterCollect(it2, acc)

\* Pawn<Move>::actions : the panic arm of its match on the pawn's level
actions_panics(g, pawn) ==
    /\ pawn.player = g.player
    /\ level_at(g.board, pawn.pos) \notin {"Ground", "One", "Two"}

\* ActionsIterator, had it not shifted the second word of the board in
ActionsIterator_LowWordOnly(g, pawn) ==
    IF pawn.player # g.player
    THEN [board |-> ZeroWord, offsets |-> ZeroBytes, mask |-> 0,
          from |-> pawn.pos, to |-> pawn.pos, game |-> g]
    ELSE LET l == level_at(g.board, pawn.pos)
             mask == CASE l = "Ground" -> 3 [] l = "One" -> 7 [] l = "Two" -> 15
             offsets0 == ACTION_LOOKUP_TABLE[pawn.pos.word][pawn.pos.nibble]
             off == offsets0[0]
             offsets == [offsets0 EXCEPT ![0] = 0]
             composite == composite_board(g)
             board == IF off >= 64 THEN Shr(composite[1], off - 64)
                      ELSE Shr(composite[0], off)
         IN  [board |-> board, offsets |-> offsets, mask |-> mask,
              from |-> pawn.pos, to |-> [word |-> 0, nibble |-> off], game |-> g]

\* Pawn<Move>::actions : the ActionsIterator the call constructs (when it
\* does not panic)
ActionsIterator(g, pawn) ==
    IF pawn.player # g.player
    THEN [board |-> ZeroWord, offsets |-> ZeroBytes, mask |-> 0,
          from |-> pawn.pos, to |-> pawn.pos, game |-> g]
    ELSE LET l == level_at(g.board, pawn.pos)
             mask == CASE l = "Ground" -> 3 [] l = "One" -> 7 [] l = "Two" -> 15
             offsets0 == ACTION_LOOKUP_TABLE[pawn.pos.word][pawn.pos.nibble]
             off == offsets0[0]
             offsets == [offsets0 EXCEPT ![0] = 0]
             composite == composite_board(g)
             board == IF off >= 64 THEN Shr(composite[1], off - 64)
                      ELSE WordOr(Shr(composite[0], off),
                                  IF off > 0 THEN Shl(composite[1], 64 - off) ELSE ZeroWord)
         IN  [board |-> board, offsets |-> offsets, mask |-> mask,
              from |-> pawn.pos, to |-> [word |-> 0, nibble |-> off], game |-> g]

\* Pawn<Move>::actions, collected into a Vec
move_actions(g, pawn) == IterCollect(ActionsIterator(g, pawn), <<>>)

(***************************************************************************)
(* ActionResult, Game<Move>::apply                                         *)
(***************************************************************************)
Continue(g) == [tag |-> "Continue", game |-> g]

Victory(g) == [tag |-> "Victory", game |-> g]

Panic(msg) == [tag |-> "Panic", msg |-> msg]

\* locs.iter_mut().find(|loc| **loc == action.from) : index of the first match, 0 if none
FindLoc(locs, from) ==
    IF locs[1] = from THEN 1 ELSE IF locs[2] = from THEN 2 ELSE 0

\* Game<Move>::apply, had it declared victory on reaching level Two
MoveApply_WinAtTwo(g, action) ==
    IF action.game # g THEN Panic("action associated with a different game")
    ELSE LET locs   == player_locs(g, g.player)
             source == FindLoc(locs, action.from)
             moved  == [locs EXCEPT ![source] = action.to]
             p1     == IF g.player = "PlayerOne" THEN moved ELSE g.player1_locs
             p2     == IF g.player = "PlayerTwo" THEN moved ELSE g.player2_locs
         IN  IF source = 0 THEN Panic("Invalid MoveAction")
             ELSE IF level_at(g.board, action.to) = "Two"
             THEN Victory([phase |-> "Victory", player1_locs |-> p1, player2_locs |-> p2,
                           board |-> g.board, player |-> g.player])
             ELSE Continue([phase |-> "Build", player1_locs |-> p1, player2_locs |-> p2,
                            active_loc |-> action.to,
                            board |-> g.board, player |-> g.player])

\* Game<Move>::apply, had it recorded the square the pawn left as active_loc
MoveApply_ActiveFrom(g, action) ==
    IF action.game # g THEN Panic("action associated with a different game")
    ELSE LET locs   == player_locs(g, g.player)
             source == FindLoc(locs, action.from)
             moved  == [locs EXCEPT ![source] = action.to]
             p1     == IF g.player = "PlayerOne" THEN moved ELSE g.player1_locs
             p2     == IF g.player = "PlayerTwo" THEN moved ELSE g.player2_locs
         IN  IF source = 0 THEN Panic("Invalid MoveAction")
             ELSE IF level_at(g.board, action.to) = "Three"
             THEN Victory([phase |-> "Victory", player1_locs |-> p1, player2_locs |-> p2,
                           board |-> g.board, player |-> g.player])
             ELSE Continue([phase |-> "Build", player1_locs |-> p1, player2_locs |-> p2,
                            active_loc |-> action.from,
                            board |-> g.board, player |-> g.player])

\* Game<Move>::apply, had it lacked the test for a step onto level Three
MoveApply_NoVictoryTest(g, action) ==
    IF action.game # g THEN Panic("action associated with a different game")
    ELSE LET locs   == player_locs(g, g.player)
             source == FindLoc(locs, action.from)
             moved  == [locs EXCEPT ![source] = action.to]
             p1     == IF g.player = "PlayerOne" THEN moved ELSE g.player1_locs
             p2     == IF g.player = "PlayerTwo" THEN moved ELSE g.player2_locs
         IN  IF source = 0 THEN Panic("Invalid MoveAction")
             ELSE Continue([phase |-> "Build", player1_locs |-> p1, player2_locs |-> p2,
                            active_loc |-> action.to,
                            board |-> g.board, player |-> g.player])

\* Game<Move>::apply, had it recorded the opponent of the mover as the winner
MoveApply_WinnerOther(g, action) ==
    IF action.game # g THEN Panic("action associated with a different game")
    ELSE LET locs   == player_locs(g, g.player)
             source == FindLoc(locs, action.from)
             moved  == [locs EXCEPT ![source] = action.to]
             p1     == IF g.player = "PlayerOne" THEN moved ELSE g.player1_locs
             p2     == IF g.player = "PlayerTwo" THEN moved ELSE g.player2_locs
         IN  IF source = 0 THEN Panic("Invalid MoveAction")
             ELSE IF level_at(g.board, action.to) = "Three"
             THEN Victory([phase |-> "Victory", player1_locs |-> p1, player2_locs |-> p2,
                           board |-> g.board, player |-> Other(g.player)])
             ELSE Continue([phase |-> "Build", player1_locs |-> p1, player2_locs |-> p2,
                            active_loc |-> action.to,
                            board |-> g.board, player |-> g.player])

\* Game<Move>::apply as a release build compiles it: without the comparison
\* of action.game with self
MoveApply_ReleaseBuild(g, action) ==
    LET locs   == player_locs(g, g.player)
        source == FindLoc(locs, action.from)
        moved  == [locs EXCEPT ![source] = action.to]
        p1     == IF g.player = "PlayerOne" THEN moved ELSE g.player1_locs
        p2     == IF g.player = "PlayerTwo" THEN moved ELSE g.player2_locs
    IN  IF source = 0 THEN Panic("Invalid MoveAction")
        ELSE IF level_at(g.board, action.to) = "Panic" THEN Panic("Invalid entry")
        ELSE IF level_at(g.board, action.to) = "Three"
        THEN Victory([phase |-> "Victory", player1_locs |-> p1, player2_locs |-> p2,
                      board |-> g.board, player |-> g.player])
        ELSE Continue([phase |-> "Build", player1_locs |-> p1, player2_locs |-> p2,
                       active_loc |-> action.to,
                       board |-> g.board, player |-> g.player])

\* Game<Move>::apply, had it always written the first of the two locations
MoveApply_FirstSlot(g, action) ==
    IF action.game # g THEN Panic("action associated with a different game")
    ELSE LET locs   == player_locs(g, g.player)
             source == FindLoc(locs, action.from)
             moved  == [locs EXCEPT ![1] = action.to]
             p1     == IF g.player = "PlayerOne" THEN moved ELSE g.player1_locs
             p2     == IF g.player = "PlayerTwo" THEN moved ELSE g.player2_locs
         IN  IF source = 0 THEN Panic("Invalid MoveAction")
             ELSE IF level_at(g.board, action.to) = "Panic" THEN Panic("Invalid entry")
             ELSE IF level_at(g.board, action.to) = "Three"
             THEN Victory([phase |-> "Victory", player1_locs |-> p1, player2_locs |-> p2,
                           board |-> g.board, player |-> g.player])
             ELSE Continue([phase |-> "Build", player1_locs |-> p1, player2_locs |-> p2,
                            active_loc |-> action.to,
                            board |-> g.board, player |-> g.player])

\* Game<Move>::apply
MoveApply(g, action) ==
    IF action.game # g THEN Panic("action associated with a different game")
    ELSE LET locs   == player_locs(g, g.player)
             source == FindLoc(locs, action.from)
             moved  == [locs EXCEPT ![source] = action.to]
             p1     == IF g.player = "PlayerOne" THEN moved ELSE g.player1_locs
             p2     == IF g.player = "PlayerTwo" THEN moved ELSE g.player2_locs
         IN  IF source = 0 THEN Panic("Invalid MoveAction")
             ELSE IF level_at(g.board, action.to) = "Panic" THEN Panic("Invalid entry")
             ELSE IF level_at(g.board, action.to) = "Three"
             THEN Victory([phase |-> "Victory", player1_locs |-> p1, player2_locs |-> p2,
                           board |-> g.board, player |-> g.player])
             ELSE Continue([phase |-> "Build", player1_locs |-> p1, player2_locs |-> p2,
                            active_loc |-> action.to,
                            board |-> g.board, player |-> g.player])

(***************************************************************************)
(* Build phase                                                             *)
(***************************************************************************)
\* BuildAction (debug build: bound to the game it was derived from)
BuildAction(loc, g) == [loc |-> loc, game |-> g]

\* Game<Build>::active_pawn
active_pawn(g) == [pos |-> g.active_loc, player |-> g.player]

\* can_build, had it not required the pawn to be the active pawn
can_build_AnyPawn(g, pawn, loc) ==
    IF /\ Distance(pawn.pos, loc) = 1
       /\ check(composite_board(g), loc, "Three")
    THEN Some([loc |-> loc, game |-> g])
    ELSE None

\* Pawn<Build>::can_build
can_build(g, pawn, loc) ==
    IF /\ pawn.pos = g.active_loc
       /\ Distance(pawn.pos, loc) = 1
       /\ check(composite_board(g), loc, "Three")
    THEN Some(BuildAction(loc, g))
    ELSE None

\* Pawn<Build>::actions, had it tested the plain board instead of the composite
build_actions_IgnorePawns(g, pawn) ==
    LET is_active_pawn == (pawn = [pos |-> g.active_loc, player |-> g.player])
        F1 == SelectSeq(neighbors(pawn), LAMBDA loc : is_active_pawn)
        F2 == SelectSeq(F1, LAMBDA loc : check(g.board, loc, "Three"))
    IN  [i \in 1..Len(F2) |-> [loc |-> F2[i], game |-> g]]

\* Pawn<Build>::actions, had it offered the cells of level Ground only
build_actions_GroundOnly(g, pawn) ==
    LET is_active_pawn == (pawn = active_pawn(g))
        composite == composite_board(g)
        F1 == SelectSeq(neighbors(pawn), LAMBDA loc : is_active_pawn)
        F2 == SelectSeq(F1, LAMBDA loc : check(composite, loc, "Ground"))
    IN  [i \in 1..Len(F2) |-> BuildAction(F2[i], g)]

\* Pawn<Build>::actions, collected
build_actions(g, pawn) ==
    LET is_active_pawn == (pawn = active_pawn(g))
        composite == composite_board(g)
        F1 == SelectSeq(neighbors(pawn), LAMBDA loc : is_active_pawn)
        F2 == SelectSeq(F1, LAMBDA loc : check(composite, loc, "Three"))
    IN  [i \in 1..Len(F2) |-> BuildAction(F2[i], g)]

\* Game<Build>::apply, had the stalemate test looked at the first pawn only
BuildApply_FirstPawnOnly(g, action) ==
    IF action.game # g THEN Panic("action associated with a different game")
    ELSE LET board == build(g.board, action.loc)
             new   == [phase |-> "Move",
                       player1_locs |-> g.player1_locs,
                       player2_locs |-> g.player2_locs,
                       board |-> board.grid,
                       player |-> Other(g.player)]
             pawns == active_pawns(new)
         IN  IF IsPanic(board) THEN Panic(board.panic)
             ELSE IF has_actions_panics(new, pawns[1]) THEN Panic("Pawn at unreachable height")
             ELSE IF has_actions(new, pawns[1]) THEN Continue(new)
             ELSE Victory([phase |-> "Victory",
                           player1_locs |-> new.player1_locs,
                           player2_locs |-> new.player2_locs,
                           board |-> new.board,
                           player |-> g.player])

\* Game<Build>::apply, had it lacked the stalemate test
BuildApply_NoStalemateTest(g, action) ==
    IF action.game # g THEN Panic("action associated with a different game")
    ELSE LET board == build(g.board, action.loc)
         IN  IF IsPanic(board) THEN Panic(board.panic)
             ELSE Continue([phase |-> "Move",
                            player1_locs |-> g.player1_locs,
                            player2_locs |-> g.player2_locs,
                            board |-> board.grid,
                            player |-> Other(g.player)])

\* Game<Build>::apply, had it built on the cell of the active pawn
BuildApply_BuildsUnderPawn(g, action) ==
    IF action.game # g THEN Panic("action associated with a different game")
    ELSE LET board == build(g.board, g.active_loc)
             new   == [phase |-> "Move",
                       player1_locs |-> g.player1_locs,
                       player2_locs |-> g.player2_locs,
                       board |-> board.grid,
                       player |-> Other(g.player)]
             pawns == active_pawns(new)
         IN  IF IsPanic(board) THEN Panic(board.panic)
             ELSE IF has_actions_panics(new, pawns[1]) THEN Panic("Pawn at unreachable height")
             ELSE IF has_actions(new, pawns[1]) THEN Continue(new)
             ELSE IF has_actions_panics(new, pawns[2]) THEN Panic("Pawn at unreachable height")
             ELSE IF has_actions(new, pawns[2]) THEN Continue(new)
             ELSE Victory([phase |-> "Victory",
                           player1_locs |-> new.player1_locs,
                           player2_locs |-> new.player2_locs,
                           board |-> new.board,
                           player |-> g.player])

\* Game<Build>::apply
BuildApply(g, action) ==
    IF action.game # g THEN Panic("action associated with a different game")
    ELSE LET board == build(g.board, action.loc)
             new   == [phase |-> "Move",
                       player1_locs |-> g.player1_locs,
                       player2_locs |-> g.player2_locs,
                       board |-> board.grid,
                       player |-> Other(g.player)]
             pawns == active_pawns(new)
         IN  IF IsPanic(board) THEN Panic(board.panic)
             ELSE IF has_actions_panics(new, pawns[1]) THEN Panic("Pawn at unreachable height")
             ELSE IF has_actions(new, pawns[1]) THEN Continue(new)
             ELSE IF has_actions_panics(new, pawns[2]) THEN Panic("Pawn at unreachable height")
             ELSE IF has_actions(new, pawns[2]) THEN Continue(new)
             ELSE Victory([phase |-> "Victory",
                           player1_locs |-> new.player1_locs,
                           player2_locs |-> new.player2_locs,
                           board |-> new.board,
                           player |-> g.player])

(***************************************************************************)
(* Placement                                                               *)
(***************************************************************************)
PlaceAction(pos1, pos2, g) == [pos1 |-> pos1, pos2 |-> pos2, game |-> g]

\* Game<PlaceOne>::can_place
PlaceOneCanPlace(g, pos1, pos2) ==
    IF pos1 # pos2 THEN Some(PlaceAction(pos1, pos2, g)) ELSE None

\* Game<PlaceOne>::apply, had it stored the two positions in the other order
PlaceOneApply_Swapped(g, placement) ==
    IF placement.game # g THEN Panic("action associated with a different game")
    ELSE Continue([phase |-> "PlaceTwo",
                   player1_locs |-> <<placement.pos2, placement.pos1>>,
                   board |-> g.board,
                   player |-> "PlayerTwo"])

\* Game<PlaceOne>::apply
PlaceOneApply(g, placement) ==
    IF placement.game # g THEN Panic("action associated with a different game")
    ELSE Continue([phase |-> "PlaceTwo",
                   player1_locs |-> <<placement.pos1, placement.pos2>>,
                   board |-> g.board,
                   player |-> "PlayerTwo"])

\* Game<PlaceTwo>::can_place, had it compared only pos1 with PlayerOne's pawns
PlaceTwoCanPlace_Pos1Only(g, pos1, pos2) ==
    IF \E i \in 1..2 : pos1 = g.player1_locs[i] THEN None
    ELSE IF pos1 # pos2 THEN Some([pos1 |-> pos1, pos2 |-> pos2, game |-> g])
    ELSE None

\* Game<PlaceTwo>::can_place
PlaceTwoCanPlace(g, pos1, pos2) ==
    IF \E i \in 1..2 : pos1 = g.player1_locs[i] \/ pos2 = g.player1_locs[i] THEN None
    ELSE IF pos1 # pos2 THEN Some(PlaceAction(pos1, pos2, g))
    ELSE None

\* Game<PlaceTwo>::apply
PlaceTwoApply(g, placement) ==
    IF placement.game # g THEN Panic("action associated with a different game")
    ELSE Continue([phase |-> "Move",
                   player1_locs |-> g.player1_locs,
                   player2_locs |-> <<placement.pos1, placement.pos2>>,
                   board |-> g.board,
                   player |-> "PlayerOne"])

(***************************************************************************)
(* The game as the driver plays it                                         *)
(***************************************************************************)
\* The cells the players of the explored games use, nearest the (0,0) corner first
ArenaCells ==
    << <<0, 0>>, <<1, 0>>, <<0, 1>>, <<1, 1>>, <<0, 2>>, <<1, 2>> >>

Arena == { PointNew(ArenaCells[i][1], ArenaCells[i][2]) : i \in 1..Len(ArenaCells) }

\* The placements the players of the explored games make: two of the first
\* PlaceSize arena cells, the nearer to the corner first
Placements ==
    LET n == IF PlaceSize < Len(ArenaCells) THEN PlaceSize ELSE Len(ArenaCells)
    IN  { << PointNew(ArenaCells[i][1], ArenaCells[i][2]),
             PointNew(ArenaCells[j][1], ArenaCells[j][2]) >> :
            <<i, j>> \in { q \in (1..n) \X (1..n) : q[1] < q[2] } }

\* A panic aborts the program
Panicked == [phase |-> "Panicked"]

Outcome(r) == IF r.tag = "Panic" THEN Panicked ELSE r.game

\* the value of a harness variable while its harness is not running
Idle == [pc |-> "idle"]

AuxIdle ==
    /\ held = Idle
    /\ tree = Idle
    /\ ai = Idle
    /\ playout = Idle
    /\ twin = Idle
    /\ driver = Idle

Init ==
    /\ game = new_game
    /\ last_op = "new_game"
    /\ builds = 0
    /\ AuxIdle
    /\ point_tests = Idle
    /\ board_tests = Idle
    /\ script = Idle

PlaceOneStep ==
    /\ game.phase = "PlaceOne"
    /\ \E pl \in Placements :
         LET a == PlaceOneCanPlace(game, pl[1], pl[2])
         IN  /\ a.tag = "Some"
             /\ game' = Outcome(PlaceOneApply(game, a.val))
    /\ last_op' = "place"
    /\ UNCHANGED builds
    /\ UNCHANGED test_vars

PlaceTwoStep ==
    /\ game.phase = "PlaceTwo"
    /\ \E pl \in Placements :
         LET a == PlaceTwoCanPlace(game, pl[1], pl[2])
         IN  /\ a.tag = "Some"
             /\ game' = Outcome(PlaceTwoApply(game, a.val))
    /\ last_op' = "place"
    /\ UNCHANGED builds
    /\ UNCHANGED test_vars

MoveStep ==
    /\ game.phase = "Move"
    /\ \E i \in 1..2 :
         LET pawn == active_pawns(game)[i]
         IN  IF actions_panics(game, pawn)
             THEN game' = Panicked
             ELSE LET acts == move_actions(game, pawn)
                  IN  \E k \in 1..Len(acts) :
                        /\ acts[k].to \in Arena
                        /\ game' = Outcome(MoveApply(game, acts[k]))
    /\ last_op' = "move"
    /\ UNCHANGED builds
    /\ UNCHANGED test_vars

\* the Build step of a player, in a game of at most `limit` builds
BuildWithin(limit) ==
    /\ game.phase = "Build"
    /\ builds < limit
    /\ \E i \in 1..2 :
         LET acts == build_actions(game, active_pawns(game)[i])
         IN  \E k \in 1..Len(acts) :
               /\ acts[k].loc \in Arena
               /\ game' = Outcome(BuildApply(game, acts[k]))
    /\ last_op' = "build"
    /\ builds' = builds + 1
    /\ UNCHANGED test_vars

BuildStep == BuildWithin(MaxBuilds)

ResignStep ==
    /\ game.phase \in {"Move", "Build"}
    /\ game' = resign(game)
    /\ last_op' = "resign"
    /\ UNCHANGED builds
    /\ UNCHANGED test_vars

Next ==
    \/ PlaceOneStep
    \/ PlaceTwoStep
    \/ MoveStep
    \/ BuildStep
    \/ ResignStep

Spec == Init /\ [][Next]_vars

(***************************************************************************)
(* A game between two players that never resign: RandomAI and MCTSAI have  *)
(* no call of resign, only HumanPlayer has.                                *)
(***************************************************************************)
AINext ==
    \/ PlaceOneStep
    \/ PlaceTwoStep
    \/ MoveStep
    \/ BuildStep

AISpec == Init /\ [][AINext]_vars

(***************************************************************************)
(* The engine as its interface allows it to be used.  Game::resign is a    *)
(* method of impl<S: GameState + NormalState> Game<S>, and NormalState is  *)
(* implemented for Move, Build and Victory: a caller may resign any of     *)
(* them.  apply exists for PlaceOne, PlaceTwo, Move and Build only.        *)
(***************************************************************************)
NormalStates == {"Move", "Build", "Victory"}

EngineResignStep ==
    /\ game.phase \in NormalStates
    /\ game' = resign(game)
    /\ last_op' = "resign"
    /\ UNCHANGED builds
    /\ UNCHANGED test_vars

EngineNext ==
    \/ PlaceOneStep
    \/ PlaceTwoStep
    \/ MoveStep
    \/ BuildStep
    \/ EngineResignStep

EngineSpec == Init /\ [][EngineNext]_vars

(***************************************************************************)
(* Board on its own (board_tests): builds and caps applied to a fresh      *)
(* board.  A run works on two cells of the board, any two of the 25; the   *)
(* build and cap counts of the two cells are kept next to the board.       *)
(***************************************************************************)
\* the offset of a cell in the grid
Offset(p) == p.word * 16 + p.nibble \div 4

BoardCellPairs == { pr \in AllPoints \X AllPoints : Offset(pr[1]) < Offset(pr[2]) }

BoardInit ==
    /\ game = new_game
    /\ last_op = "new_game"
    /\ builds = 0
    /\ AuxIdle
    /\ point_tests = Idle
    /\ script = Idle
    /\ \E pr \in BoardCellPairs :
         board_tests = [pc |-> "run", cells |-> pr, board |-> BoardNew,
                        nbuilds |-> <<0, 0>>, capped |-> <<FALSE, FALSE>>]

\* b.build(pt), when the build does not panic
BoardBuildStep ==
    /\ board_tests.pc = "run"
    /\ \E k \in 1..2 :
         LET r == build(board_tests.board, board_tests.cells[k])
         IN  /\ ~IsPanic(r)
             /\ board_tests' = [board_tests EXCEPT !.board = r.grid,
                                                   !.nbuilds[k] = @ + 1]
    /\ UNCHANGED <<game_vars, point_tests, script, aux_vars>>

\* b.build(pt), when the build panics: the run is over
BoardBuildPanicStep ==
    /\ board_tests.pc = "run"
    /\ \E k \in 1..2 :
         /\ IsPanic(build(board_tests.board, board_tests.cells[k]))
         /\ board_tests' = [board_tests EXCEPT !.pc = "panicked"]
    /\ UNCHANGED <<game_vars, point_tests, script, aux_vars>>

\* b.cap(pt)
BoardCapStep ==
    /\ board_tests.pc = "run"
    /\ \E k \in 1..2 :
         board_tests' = [board_tests EXCEPT
                            !.board = cap(board_tests.board, board_tests.cells[k]),
                            !.capped[k] = TRUE]
    /\ UNCHANGED <<game_vars, point_tests, script, aux_vars>>

BoardNext ==
    \/ BoardBuildStep
    \/ BoardBuildPanicStep
    \/ BoardCapStep

BoardSpec == BoardInit /\ [][BoardNext]_vars

(***************************************************************************)
(* Point on its own (point_tests): Point::new_ applied to a pair of Coord  *)
(* (i8) values, then x(), y() and the neighbors of a pawn on the point.    *)
(***************************************************************************)
\* the Coord values tried: those of point_tests, the board's own, the ends of i8
CoordInputs == {-128, -8, -4, -1, 0, 1, 2, 3, 4, 5, 7, 9, 127}

PointInit ==
    /\ game = new_game
    /\ last_op = "new_game"
    /\ builds = 0
    /\ AuxIdle
    /\ board_tests = Idle
    /\ script = Idle
    /\ \E x \in CoordInputs, y \in CoordInputs :
         point_tests = [pc |-> "input", x |-> x, y |-> y]

\* let point = Point::new_(Coord::from(x), Coord::from(y))
PointNewStep ==
    /\ point_tests.pc = "input"
    /\ point_tests' = [pc |-> "new_", x |-> point_tests.x, y |-> point_tests.y,
                       point |-> PointNew_(point_tests.x, point_tests.y)]
    /\ UNCHANGED <<game_vars, board_tests, script, aux_vars>>

\* point.x(), point.y(), and the point made of them again
PointXYStep ==
    /\ point_tests.pc = "new_"
    /\ point_tests.point.tag = "Some"
    /\ LET p == point_tests.point.val
       IN  point_tests' = [pc |-> "x_y", x |-> point_tests.x, y |-> point_tests.y,
                           point |-> point_tests.point,
                           px |-> X(p), py |-> Y(p),
                           again |-> PointNew_(X(p), Y(p))]
    /\ UNCHANGED <<game_vars, board_tests, script, aux_vars>>

\* pawn.neighbors().collect() for a pawn standing on the point
PointNeighborsStep ==
    /\ point_tests.pc = "x_y"
    /\ \E player \in {"PlayerOne", "PlayerTwo"} :
         point_tests' = [pc |-> "neighbors", x |-> point_tests.x, y |-> point_tests.y,
                         point |-> point_tests.point,
                         nbrs |-> neighbors([pos |-> point_tests.point.val,
                                             player |-> player])]
    /\ UNCHANGED <<game_vars, board_tests, script, aux_vars>>

PointNext ==
    \/ PointNewStep
    \/ PointXYStep
    \/ PointNeighborsStep

PointSpec == PointInit /\ [][PointNext]_vars

(***************************************************************************)
(* game_tests::victory : the test's sequence of placements, moves and      *)
(* builds, each through can_place / can_move / can_build and apply as the  *)
(* test calls them.  The sequence is replayed as written and moved to      *)
(* every other position of the board at which all its cells are in bounds. *)
(***************************************************************************)
\* the calls of the test, in order; coordinates as written in the test
VictoryScript ==
    << [op |-> "place", pos1 |-> <<1, 1>>, pos2 |-> <<2, 2>>],
       [op |-> "place", pos1 |-> <<2, 1>>, pos2 |-> <<1, 2>>],
       [op |-> "move",  pawn |-> 1, to |-> <<1, 0>>],
       [op |-> "build", loc |-> <<1, 1>>],
       [op |-> "move",  pawn |-> 1, to |-> <<2, 0>>],
       [op |-> "build", loc |-> <<2, 1>>],
       [op |-> "move",  pawn |-> 2, to |-> <<2, 1>>],
       [op |-> "build", loc |-> <<2, 2>>],
       [op |-> "move",  pawn |-> 2, to |-> <<2, 2>>],
       [op |-> "build", loc |-> <<1, 1>>],
       [op |-> "move",  pawn |-> 2, to |-> <<1, 1>>],
       [op |-> "build", loc |-> <<2, 1>>],
       [op |-> "move",  pawn |-> 2, to |-> <<1, 2>>],
       [op |-> "build", loc |-> <<2, 1>>],
       [op |-> "move",  pawn |-> 2, to |-> <<2, 1>>] >>

\* the displacements that keep the cells of the script (x in 1..2, y in 0..2)
\* on the board
ScriptShifts == ((-1)..2) \X (0..2)

\* Point::new(x.into(), y.into()) of a cell of the script
ScriptPoint(c) == PointNew(c[1] + script.shift[1], c[2] + script.shift[2])

\* .expect("Invalid victory!") on the result of apply; the last call of the
\* test instead takes the Victory and panics with "Victory not detected!"
ScriptExpect(r) ==
    IF r.tag = "Panic" THEN Panicked
    ELSE IF script.pc = Len(VictoryScript)
         THEN (IF r.tag = "Victory" THEN r.game ELSE Panicked)
         ELSE (IF r.tag = "Continue" THEN r.game ELSE Panicked)

ScriptInit ==
    /\ game = new_game
    /\ last_op = "new_game"
    /\ builds = 0
    /\ AuxIdle
    /\ point_tests = Idle
    /\ board_tests = Idle
    /\ \E sh \in ScriptShifts : script = [pc |-> 1, shift |-> sh]

\* let action = g.can_place(pt1, pt2).expect("Invalid placement!");
\* let g = g.apply(action);
ScriptPlaceStep ==
    /\ script.pc \in 1..Len(VictoryScript)
    /\ VictoryScript[script.pc].op = "place"
    /\ game.phase \in {"PlaceOne", "PlaceTwo"}
    /\ LET call == VictoryScript[script.pc]
           pos1 == ScriptPoint(call.pos1)
           pos2 == ScriptPoint(call.pos2)
           a    == IF game.phase = "PlaceOne"
                   THEN PlaceOneCanPlace(game, pos1, pos2)
                   ELSE PlaceTwoCanPlace(game, pos1, pos2)
       IN  game' = IF a.tag # "Some" THEN Panicked
                   ELSE IF game.phase = "PlaceOne"
                   THEN Outcome(PlaceOneApply(game, a.val))
                   ELSE Outcome(PlaceTwoApply(game, a.val))
    /\ last_op' = "place"
    /\ script' = [script EXCEPT !.pc = @ + 1]
    /\ UNCHANGED <<builds, point_tests, board_tests, aux_vars>>

\* let [pawn1, _] = g.active_pawns();   (or [_, pawn2])
\* let action = pawn.can_move(pt).expect("Invalid movement!");
\* let g = g.apply(action).expect("Invalid victory!");
ScriptMoveStep ==
    /\ script.pc \in 1..Len(VictoryScript)
    /\ VictoryScript[script.pc].op = "move"
    /\ game.phase = "Move"
    /\ LET call == VictoryScript[script.pc]
           pawn == active_pawns(game)[call.pawn]
           a    == can_move(game, pawn, ScriptPoint(call.to))
       IN  game' = IF a.tag # "Some" THEN Panicked
                   ELSE ScriptExpect(MoveApply(game, a.val))
    /\ last_op' = "move"
    /\ script' = [script EXCEPT !.pc = @ + 1]
    /\ UNCHANGED <<builds, point_tests, board_tests, aux_vars>>

\* let pawn = g.active_pawn();
\* let action = pawn.can_build(pt).expect("Invalid build");
\* let g = g.apply(action).expect("Invalid victory!");
ScriptBuildStep ==
    /\ script.pc \in 1..Len(VictoryScript)
    /\ VictoryScript[script.pc].op = "build"
    /\ game.phase = "Build"
    /\ LET call == VictoryScript[script.pc]
           a    == can_build(game, active_pawn(game), ScriptPoint(call.loc))
       IN  game' = IF a.tag # "Some" THEN Panicked
                   ELSE ScriptExpect(BuildApply(game, a.val))
    /\ last_op' = "build"
    /\ builds' = builds + 1
    /\ script' = [script EXCEPT !.pc = @ + 1]
    /\ UNCHANGED <<point_tests, board_tests, aux_vars>>

ScriptNext ==
    \/ ScriptPlaceStep
    \/ ScriptMoveStep
    \/ ScriptBuildStep

ScriptSpec == ScriptInit /\ [][ScriptNext]_vars

(***************************************************************************)
(* A caller that keeps an action and hands it to apply later.  Game and    *)
(* the actions are Copy, so nothing in the types stops a caller from       *)
(* keeping an action after the game has advanced, or from deriving it from *)
(* another game of the same phase; the types only force the phase of the   *)
(* action and of the game to agree.  Debug build.                          *)
(***************************************************************************)
\* the games of this caller have at most HeldBuilds builds
HeldBuilds == 2

\* the other games of the same phase the caller may hold: for PlaceTwo, the
\* games a second new_game() reaches with another first placement
OtherGames(g) ==
    IF g.phase = "PlaceTwo"
    THEN { PlaceOneApply(new_game, PlaceAction(pl[1], pl[2], new_game)).game :
             pl \in Placements } \ {g}
    ELSE {}

\* the actions can_place, actions() and can_build hand out for game g
DerivedActions(g) ==
    CASE g.phase = "PlaceOne" ->
           { PlaceOneCanPlace(g, pl[1], pl[2]).val : pl \in Placements }
      [] g.phase = "PlaceTwo" ->
           { PlaceTwoCanPlace(g, pl[1], pl[2]).val :
               pl \in { q \in Placements : PlaceTwoCanPlace(g, q[1], q[2]).tag = "Some" } }
      [] g.phase = "Move" ->
           UNION { IF actions_panics(g, active_pawns(g)[i]) THEN {}
                   ELSE LET acts == move_actions(g, active_pawns(g)[i])
                        IN  { acts[k] : k \in { n \in 1..Len(acts) : acts[n].to \in Arena } } :
                   i \in 1..2 }
      [] g.phase = "Build" ->
           LET acts == build_actions(g, active_pawn(g))
           IN  { acts[k] : k \in { n \in 1..Len(acts) : acts[n].loc \in Arena } }
      [] OTHER -> {}

\* game.apply(action) for the phase of the game
ApplyHeld(g, action) ==
    CASE g.phase = "PlaceOne" -> PlaceOneApply(g, action)
      [] g.phase = "PlaceTwo" -> PlaceTwoApply(g, action)
      [] g.phase = "Move" -> MoveApply(g, action)
      [] g.phase = "Build" -> BuildApply(g, action)

\* the caller derives an action and keeps it instead of applying it
HoldStep ==
    /\ held = Idle
    /\ \E src \in {game} \cup OtherGames(game) :
         \E a \in DerivedActions(src) :
           held' = [pc |-> "held", kind |-> game.phase, action |-> a]
    /\ UNCHANGED <<game_vars, point_tests, board_tests, script, tree, ai, playout, twin, driver>>

\* the caller applies the kept action to the game it has now
ReuseStep ==
    /\ held.pc = "held"
    /\ held.kind = game.phase
    /\ game.phase = "Build" => builds < HeldBuilds
    /\ game' = Outcome(ApplyHeld(game, held.action))
    /\ last_op' = "reuse"
    /\ builds' = IF game.phase = "Build" THEN builds + 1 ELSE builds
    /\ held' = [pc |-> "used", kind |-> held.kind, action |-> held.action,
                applied_to |-> game]
    /\ UNCHANGED <<point_tests, board_tests, script, tree, ai, playout, twin, driver>>

HeldBuildStep == BuildWithin(HeldBuilds)

ReuseNext ==
    \/ PlaceOneStep
    \/ PlaceTwoStep
    \/ MoveStep
    \/ HeldBuildStep
    \/ HoldStep
    \/ ReuseStep

ReuseSpec == Init /\ [][ReuseNext]_vars

(***************************************************************************)
(* Monte-Carlo tree search (src/src/mcts): Node<T>, Mcts<T, R>.            *)
(*                                                                         *)
(* An f64 score is kept as the exact fraction <<numerator, denominator>>   *)
(* in lowest terms with a positive denominator; the u32 iteration counts   *)
(* stay far below 2^32 in the explored trees.  Node and Mcts are generic   *)
(* in the state type T and take the expansion, the simulation and the tree *)
(* policy as trait objects.  The explored trees are those of a take-away   *)
(* game: a state is the number of tokens left, a turn takes one or two of  *)
(* them, and the simulation returns -1.0 or +1.0 as the random stream      *)
(* decides.  The tree policy may select any child.                         *)
(***************************************************************************)
\* the largest starting state of the take-away game
NimStart == 4

\* MctsParams::budget of the explored searches
Budget == 3

RECURSIVE Gcd(_, _)
Gcd(a, b) == IF b = 0 THEN a ELSE Gcd(b, a % b)

\* the f64 n/d
Frac(n, d) ==
    LET g == Gcd(Abs(n), Abs(d))
        sgn == IF d < 0 THEN -1 ELSE 1
    IN  << sgn * (n \div g), sgn * (d \div g) >>

\* u32 as f64
AsF64(k) == <<k, 1>>

FAdd(a, b) == Frac(a[1] * b[2] + b[1] * a[2], a[2] * b[2])

FSub(a, b) == Frac(a[1] * b[2] - b[1] * a[2], a[2] * b[2])

FMul(a, b) == Frac(a[1] * b[1], a[2] * b[2])

FDiv(a, b) == Frac(a[1] * b[2], a[2] * b[1])

FNeg(a) == << -a[1], a[2] >>

FGt(a, b) == a[1] * b[2] > b[1] * a[2]

\* Expansion::expand of the take-away game, had it returned no state for a
\* single token
NimExpand_Stuck(state) ==
    IF state = 0 THEN <<>>
    ELSE IF state = 1 THEN <<>>
    ELSE <<state - 1, state - 2>>

\* Expansion::expand of the take-away game
NimExpand(state) ==
    IF state = 0 THEN <<>>
    ELSE IF state = 1 THEN <<0>>
    ELSE <<state - 1, state - 2>>

\* the values Simulation::simulate returns
SimOutcomes == { AsF64(-1), AsF64(1) }

\* the results of the simulations of one expansion, in the order they are run
SimStreams == [1..2 -> SimOutcomes]

\* Node::new ; sim is what params.simulation.simulate returns for the state
NodeNew(state, sim) ==
    [children |-> None, iterations |-> 1, score |-> sim, state |-> state]

\* the loop of Node::expand over the first k states of the expansion
RECURSIVE ExpandLoop(_, _, _)
ExpandLoop(states, sims, k) ==
    IF k = 0 THEN [children |-> <<>>, new_scores |-> AsF64(0)]
    ELSE LET acc  == ExpandLoop(states, sims, k - 1)
             node == NodeNew(states[k], sims[k])
         IN  [children   |-> Append(acc.children, node),
              new_scores |-> FAdd(acc.new_scores, FMul(AsF64(-1), node.score))]

\* Node::expand, had it added the children's scores to its own
NodeExpand_AddsScores(self, sims) ==
    IF self.children # None THEN Panic("Node has already been expanded!")
    ELSE LET states     == NimExpand(self.state)
             loop       == ExpandLoop(states, sims, Len(states))
             new_nodes  == Len(loop.children)
             new_score  == FSub(FMul(self.score, AsF64(self.iterations)), loop.new_scores)
             iterations == self.iterations + new_nodes
         IN  [tag |-> "Ok",
              node |-> [children   |-> Some(loop.children),
                        iterations |-> iterations,
                        score      |-> FDiv(new_score, AsF64(iterations)),
                        state      |-> self.state],
              ret |-> <<new_nodes, loop.new_scores>>]

\* Node::expand, had it returned the sum of the children's scores
NodeExpand_ReturnsSum(self, sims) ==
    IF self.children # None THEN Panic("Node has already been expanded!")
    ELSE LET states     == NimExpand(self.state)
             loop       == ExpandLoop(states, sims, Len(states))
             new_nodes  == Len(loop.children)
             new_score  == FAdd(FMul(self.score, AsF64(self.iterations)), loop.new_scores)
             iterations == self.iterations + new_nodes
         IN  [tag |-> "Ok",
              node |-> [children   |-> Some(loop.children),
                        iterations |-> iterations,
                        score      |-> FDiv(new_score, AsF64(iterations)),
                        state      |-> self.state],
              ret |-> <<new_nodes, FNeg(loop.new_scores)>>]

\* Node::expand
NodeExpand(self, sims) ==
    IF self.children # None THEN Panic("Node has already been expanded!")
    ELSE LET states     == NimExpand(self.state)
             loop       == ExpandLoop(states, sims, Len(states))
             new_nodes  == Len(loop.children)
             new_score  == FAdd(FMul(self.score, AsF64(self.iterations)), loop.new_scores)
             iterations == self.iterations + new_nodes
         IN  [tag |-> "Ok",
              node |-> [children   |-> Some(loop.children),
                        iterations |-> iterations,
                        score      |-> FDiv(new_score, AsF64(iterations)),
                        state      |-> self.state],
              ret |-> <<new_nodes, loop.new_scores>>]

\* Node::step, had it divided by the iteration count from before the update
RECURSIVE NodeStep_StaleIterations(_, _, _)
NodeStep_StaleIterations(self, sel, sims) ==
    IF self.children = None THEN NodeExpand(self, sims)
    ELSE LET children == self.children.val
         IN  IF Len(children) = 0
             THEN [tag |-> "Ok", node |-> self, ret |-> <<0, AsF64(0)>>]
             ELSE LET idx        == sel[1]
                      sub        == NodeStep_StaleIterations(children[idx], Tail(sel), sims)
                      count      == sub.ret[1]
                      delta      == sub.ret[2]
                      new_score  == FSub(FMul(self.score, AsF64(self.iterations)), delta)
                      iterations == self.iterations + count
                  IN  [tag |-> "Ok",
                       node |-> [children   |-> Some([children EXCEPT ![idx] = sub.node]),
                                 iterations |-> iterations,
                                 score      |-> FDiv(new_score, AsF64(self.iterations)),
                                 state      |-> self.state],
                       ret |-> <<count, FNeg(delta)>>]

\* Node::step, had it returned delta unnegated
RECURSIVE NodeStep_KeepsSign(_, _, _)
NodeStep_KeepsSign(self, sel, sims) ==
    IF self.children = None THEN NodeExpand(self, sims)
    ELSE LET children == self.children.val
         IN  IF Len(children) = 0
             THEN [tag |-> "Ok", node |-> self, ret |-> <<0, AsF64(0)>>]
             ELSE LET idx        == sel[1]
                      sub        == NodeStep_KeepsSign(children[idx], Tail(sel), sims)
                      count      == sub.ret[1]
                      delta      == sub.ret[2]
                      new_score  == FSub(FMul(self.score, AsF64(self.iterations)), delta)
                      iterations == self.iterations + count
                  IN  [tag |-> "Ok",
                       node |-> [children   |-> Some([children EXCEPT ![idx] = sub.node]),
                                 iterations |-> iterations,
                                 score      |-> FDiv(new_score, AsF64(iterations)),
                                 state      |-> self.state],
                       ret |-> <<count, delta>>]

\* Node::step, had it counted one iteration for every call
RECURSIVE NodeStep_CountsOne(_, _, _)
NodeStep_CountsOne(self, sel, sims) ==
    IF self.children = None THEN NodeExpand(self, sims)
    ELSE LET children == self.children.val
         IN  IF Len(children) = 0
             THEN [tag |-> "Ok", node |-> self, ret |-> <<0, AsF64(0)>>]
             ELSE LET idx        == sel[1]
                      sub        == NodeStep_CountsOne(children[idx], Tail(sel), sims)
                      count      == sub.ret[1]
                      delta      == sub.ret[2]
                      new_score  == FSub(FMul(self.score, AsF64(self.iterations)), delta)
                      iterations == self.iterations + 1
                  IN  [tag |-> "Ok",
                       node |-> [children   |-> Some([children EXCEPT ![idx] = sub.node]),
                                 iterations |-> iterations,
                                 score      |-> FDiv(new_score, AsF64(iterations)),
                                 state      |-> self.state],
                       ret |-> <<count, FNeg(delta)>>]

\* Node::step ; sel[1] is what params.tree_policy.select returns for this
\* node, Tail(sel) what it returns further down
RECURSIVE NodeStep(_, _, _)
NodeStep(self, sel, sims) ==
    IF self.children = None THEN NodeExpand(self, sims)
    ELSE LET children == self.children.val
         IN  IF Len(children) = 0
             THEN [tag |-> "Ok", node |-> self, ret |-> <<0, AsF64(0)>>]
             ELSE LET idx        == sel[1]
                      sub        == NodeStep(children[idx], Tail(sel), sims)
                      count      == sub.ret[1]
                      delta      == sub.ret[2]
                      new_score  == FSub(FMul(self.score, AsF64(self.iterations)), delta)
                      iterations == self.iterations + count
                  IN  [tag |-> "Ok",
                       node |-> [children   |-> Some([children EXCEPT ![idx] = sub.node]),
                                 iterations |-> iterations,
                                 score      |-> FDiv(new_score, AsF64(iterations)),
                                 state      |-> self.state],
                       ret |-> <<count, FNeg(delta)>>]

\* the index sequences a tree policy can return on the way down from a node:
\* one index of an existing child per expanded, non-terminal node
RECURSIVE Selections(_)
Selections(node) ==
    IF node.children = None THEN { <<>> }
    ELSE IF Len(node.children.val) = 0 THEN { <<>> }
    ELSE UNION { { <<i>> \o rest : rest \in Selections(node.children.val[i]) } :
                 i \in 1..Len(node.children.val) }

\* the loop of Mcts::advance that looks for the best child, over the first k
\* children: <<best_score, best_score_idx>>, indices counted from 1
RECURSIVE BestLoop(_, _)
BestLoop(children, k) ==
    IF k = 0
    THEN << FDiv(children[1].score, AsF64(children[1].iterations)), 1 >>
    ELSE LET acc == BestLoop(children, k - 1)
         IN  IF FGt(children[k].score, acc[1]) THEN << children[k].score, k >> ELSE acc

\* the node has Some, non-empty list of children: what advance asks of the
\* root with its expect and its assert!
HasChildren(node) ==
    IF node.children = None THEN FALSE ELSE Len(node.children.val) > 0

\* take_mut::take in Mcts::advance, had it made a new node for the state of
\* the child
TakeChild_Fresh(node, idx) ==
    [children |-> None, iterations |-> 1, score |-> node.children.val[idx].score,
     state |-> node.children.val[idx].state]

\* take_mut::take in Mcts::advance: node.children.unwrap().into_iter().nth(idx)
TakeChild(node, idx) == node.children.val[idx]

\* the child Mcts::advance replaces the root by
AdvanceChoice(root) == BestLoop(root.children.val, Len(root.children.val))[2]

TreeInit ==
    /\ game = new_game
    /\ last_op = "new_game"
    /\ builds = 0
    /\ point_tests = Idle
    /\ board_tests = Idle
    /\ script = Idle
    /\ held = Idle
    /\ ai = Idle
    /\ playout = Idle
    /\ twin = Idle
    /\ driver = Idle
    /\ \E state \in 0..NimStart : \E sim \in SimOutcomes : \E budget \in 0..Budget :
         tree = [pc |-> "advance", i |-> 0, budget |-> budget,
                 root_node |-> NodeNew(state, sim),
                 op |-> "new", before |-> NodeNew(state, sim),
                 sel |-> <<>>, ret |-> <<0, AsF64(0)>>]

\* one iteration of the loop of Mcts::advance: self.root_node.step(params)
TreeStepStep ==
    /\ tree.pc = "advance"
    /\ tree.i < tree.budget
    /\ \E sel \in Selections(tree.root_node) : \E sims \in SimStreams :
         LET r == NodeStep(tree.root_node, sel, sims)
         IN  tree' = [tree EXCEPT !.i = tree.i + 1, !.root_node = r.node,
                                  !.op = "step", !.before = tree.root_node,
                                  !.sel = sel, !.ret = r.ret]
    /\ UNCHANGED <<game_vars, point_tests, board_tests, script, held, ai, playout, twin, driver>>

\* Mcts::advance after its loop: the root is replaced by its best child
TreeSelectStep ==
    /\ tree.pc = "advance"
    /\ tree.i = tree.budget
    /\ tree.root_node.children # None
    /\ Len(tree.root_node.children.val) > 0
    /\ LET idx == AdvanceChoice(tree.root_node)
       IN  tree' = [tree EXCEPT !.pc = "advanced",
                                !.root_node = TakeChild(tree.root_node, idx),
                                !.op = "select", !.before = tree.root_node,
                                !.sel = <<idx>>, !.ret = <<0, AsF64(0)>>]
    /\ UNCHANGED <<game_vars, point_tests, board_tests, script, held, ai, playout, twin, driver>>

\* Mcts::advance after its loop, on a root without children: expect or
\* assert! panics
TreeSelectPanicStep ==
    /\ tree.pc = "advance"
    /\ tree.i = tree.budget
    /\ IF tree.root_node.children = None
       THEN TRUE
       ELSE Len(tree.root_node.children.val) = 0
    /\ tree' = [tree EXCEPT !.pc = "panicked", !.op = "select", !.before = tree.root_node]
    /\ UNCHANGED <<game_vars, point_tests, board_tests, script, held, ai, playout, twin, driver>>

\* a direct call of root_node.expand(params), before or after advance
TreeExpandStep ==
    /\ \/ tree.pc = "advance" /\ tree.i = 0
       \/ tree.pc = "advanced"
    /\ \E sims \in SimStreams :
         LET r == NodeExpand(tree.root_node, sims)
         IN  IF r.tag = "Panic"
             THEN tree' = [tree EXCEPT !.pc = "panicked", !.op = "expand",
                                       !.before = tree.root_node]
             ELSE tree' = [tree EXCEPT !.root_node = r.node, !.op = "expand",
                                       !.before = tree.root_node,
                                       !.sel = <<>>, !.ret = r.ret]
    /\ UNCHANGED <<game_vars, point_tests, board_tests, script, held, ai, playout, twin, driver>>

TreeNext ==
    \/ TreeStepStep
    \/ TreeSelectStep
    \/ TreeSelectPanicStep
    \/ TreeExpandStep

TreeSpec == TreeInit /\ [][TreeNext]_vars

\* The same runs, as the host of the properties of the root replacement of
\* Mcts::advance (how it ends, what it keeps, what its loop adds).
AdvanceSpec == TreeInit /\ [][TreeNext]_vars

(***************************************************************************)
(* The search over Santorini (src/src/mcts/santorini.rs): SantoriniNode,   *)
(* possible_actions, SantoriniExpansion, find_action, SantoriniSimulation. *)
(***************************************************************************)
(***************************************************************************)
(* Two searches side by side.  Each Mcts owns its MctsParams, and with     *)
(* them its generator params.rng; the tree policy is PUCT, the game is the *)
(* take-away game, and its simulation makes one draw from the generator it *)
(* is handed.  The generator is a small linear congruential one: a state   *)
(* and a function to the next state, as every seeded generator of the rand *)
(* crate is.  thread_rng is the generator of the thread, shared by all the *)
(* code that runs on it.                                                   *)
(***************************************************************************)
\* the largest seed of the explored searches
MaxSeed == 3

\* the states of the generator
RngModulus == 8

\* SeedableRng::seed_from_u64
SeedFromU64(seed) == seed % RngModulus

\* the state of the generator after one draw
RngNext(rng) == (5 * rng + 3) % RngModulus

\* the state of the generator after k draws
RECURSIVE RngSkip(_, _)
RngSkip(rng, k) == IF k = 0 THEN rng ELSE RngSkip(RngNext(rng), k - 1)

\* Simulation::simulate of the take-away game: one draw decides the result
NimSimulate(state, rng) == IF rng \div (RngModulus \div 2) = 0 THEN AsF64(-1) ELSE AsF64(1)

\* the results of the simulations of one expansion, run one after the other
\* on the generator
RngStream(state, rng) ==
    [k \in 1..2 |-> NimSimulate(state, RngSkip(rng, k - 1))]

\* PUCT::parameter of the explored searches
PuctParameters == { AsF64(0), AsF64(1) }

\* `weight > best` in PUCT::select, for the weights of child and best under a
\* parent with n iterations: (1 + score) / 2 + parameter * sqrt(n) / iterations
PuctGreater(parameter, n, child, best) ==
    LET l == FSub(FDiv(FAdd(AsF64(1), child.score), AsF64(2)),
                  FDiv(FAdd(AsF64(1), best.score), AsF64(2)))
        r == FMul(parameter, FSub(Frac(1, best.iterations), Frac(1, child.iterations)))
        ll == FMul(l, l)
        rrn == FMul(FMul(r, r), AsF64(n))
    IN  IF r[1] >= 0
        THEN l[1] > 0 /\ FGt(ll, rrn)
        ELSE l[1] >= 0 \/ FGt(rrn, ll)

\* the loop of PUCT::select over the first k children: best_index, counted
\* from 1
RECURSIVE PuctLoop(_, _, _, _)
PuctLoop(parameter, parent, children, k) ==
    IF k = 1 THEN 1
    ELSE LET best == PuctLoop(parameter, parent, children, k - 1)
         IN  IF PuctGreater(parameter, parent.iterations, children[k], children[best])
             THEN k ELSE best

\* PUCT::select
PuctSelect(parameter, parent, children) ==
    PuctLoop(parameter, parent, children, Len(children))

\* what the tree policy returns on the way down from a node
RECURSIVE PolicyPath(_, _)
PolicyPath(parameter, node) ==
    IF node.children = None THEN <<>>
    ELSE IF Len(node.children.val) = 0 THEN <<>>
    ELSE LET idx == PuctSelect(parameter, node, node.children.val)
         IN  <<idx>> \o PolicyPath(parameter, node.children.val[idx])

\* Mcts::new with a generator seeded with seed
MctsNew(state, seed, budget) ==
    [pc |-> "advance", i |-> 0, budget |-> budget,
     root_node |-> NodeNew(state, NimSimulate(state, SeedFromU64(seed))),
     rng |-> RngNext(SeedFromU64(seed))]

\* one iteration of Mcts::advance, had the simulation drawn from the
\* generator of the thread (rand::thread_rng()) and not from params.rng
MctsStep_ThreadRng(run, parameter, thread_rng) ==
    LET sel == PolicyPath(parameter, run.root_node)
        r   == NodeStep(run.root_node, sel, RngStream(run.root_node.state, thread_rng))
    IN  [run |-> [run EXCEPT !.i = run.i + 1, !.root_node = r.node],
         thread_rng |-> RngSkip(thread_rng, r.ret[1])]

\* one iteration of Mcts::advance: root_node.step(&mut params), every
\* simulation drawing from params.rng
MctsStep(run, parameter, thread_rng) ==
    LET sel == PolicyPath(parameter, run.root_node)
        r   == NodeStep(run.root_node, sel, RngStream(run.root_node.state, run.rng))
    IN  [run |-> [run EXCEPT !.i = run.i + 1, !.root_node = r.node,
                             !.rng = RngSkip(run.rng, r.ret[1])],
         thread_rng |-> thread_rng]

\* Mcts::advance after its loop
MctsSelect(run) ==
    IF HasChildren(run.root_node)
    THEN [run EXCEPT !.pc = "advanced",
                     !.root_node = TakeChild(run.root_node, AdvanceChoice(run.root_node))]
    ELSE [run EXCEPT !.pc = "panicked"]

TwinInit ==
    /\ game = new_game
    /\ last_op = "new_game"
    /\ builds = 0
    /\ point_tests = Idle
    /\ board_tests = Idle
    /\ script = Idle
    /\ held = Idle
    /\ tree = Idle
    /\ ai = Idle
    /\ playout = Idle
    /\ driver = Idle
    /\ \E state \in 0..NimStart : \E parameter \in PuctParameters :
       \E seeds \in [1..2 -> 0..MaxSeed] : \E budgets \in [1..2 -> 0..Budget] :
         twin = [pc |-> "run", state |-> state, parameter |-> parameter,
                 seeds |-> seeds, budgets |-> budgets, thread_rng |-> 0,
                 runs |-> [k \in 1..2 |-> MctsNew(state, seeds[k], budgets[k])]]

\* one iteration of the loop of advance in one of the two searches
TwinStepStep ==
    /\ twin.pc = "run"
    /\ \E k \in 1..2 :
         /\ twin.runs[k].pc = "advance"
         /\ twin.runs[k].i < twin.runs[k].budget
         /\ \E r \in {MctsStep(twin.runs[k], twin.parameter, twin.thread_rng)} :
              twin' = [twin EXCEPT !.runs[k] = r.run, !.thread_rng = r.thread_rng]
    /\ UNCHANGED <<game_vars, point_tests, board_tests, script, held, tree, ai, playout,
                   driver>>

\* the end of advance in one of the two searches: the root is replaced, or
\* advance panics
TwinSelectStep ==
    /\ twin.pc = "run"
    /\ \E k \in 1..2 :
         /\ twin.runs[k].pc = "advance"
         /\ twin.runs[k].i = twin.runs[k].budget
         /\ twin' = [twin EXCEPT !.runs[k] = MctsSelect(twin.runs[k])]
    /\ UNCHANGED <<game_vars, point_tests, board_tests, script, held, tree, ai, playout,
                   driver>>

TwinNext ==
    \/ TwinStepStep
    \/ TwinSelectStep

TwinSpec == TwinInit /\ [][TwinNext]_vars

(***************************************************************************)
(* The driver (src/src/bin/elo.rs): place_one, place_two, mv and build,    *)
(* the four functions the action! macro defines, over two RandomAI         *)
(* players.  driver.p is the player the running function has selected (1   *)
(* for p1, 2 for p2), driver.prepares and driver.steps count its calls of  *)
(* prepare and step since it was entered, driver.early records a step      *)
(* before the prepare, and driver.last is the result of the last step.     *)
(***************************************************************************)
\* the calls of step that return NoMove in one phase of the explored games
MaxNoMoves == 2

StepNoMove == [tag |-> "NoMove"]

\* Ok(StepResult::...) as the players wrap the result of apply
StepOf(r) ==
    IF r.tag = "Panic" THEN [tag |-> "Panic"] ELSE [tag |-> r.game.phase, game |-> r.game]

\* the points random_pt() returns, among those of the explored placements
DriverPoints ==
    LET n == IF PlaceSize < Len(ArenaCells) THEN PlaceSize ELSE Len(ArenaCells)
    IN  { PointNew(ArenaCells[i][1], ArenaCells[i][2]) : i \in 1..n }

\* RandomAI::step for the four phases: the results it can return
PlayerStep(g) ==
    CASE g.phase = "PlaceOne" ->
           { LET a == PlaceOneCanPlace(g, pts[1], pts[2])
             IN  IF a.tag = "Some" THEN StepOf(PlaceOneApply(g, a.val)) ELSE StepNoMove :
               pts \in DriverPoints \X DriverPoints }
      [] g.phase = "PlaceTwo" ->
           { LET a == PlaceTwoCanPlace(g, pts[1], pts[2])
             IN  IF a.tag = "Some" THEN StepOf(PlaceTwoApply(g, a.val)) ELSE StepNoMove :
               pts \in DriverPoints \X DriverPoints }
      [] g.phase = "Move" ->
           LET acts == move_actions(g, active_pawns(g)[1])
                         \o move_actions(g, active_pawns(g)[2])
           IN  { StepOf(MoveApply(g, acts[k])) :
                   k \in { n \in 1..Len(acts) : acts[n].to \in Arena } }
      [] g.phase = "Build" ->
           LET acts == build_actions(g, active_pawns(g)[1])
                         \o build_actions(g, active_pawns(g)[2])
           IN  { StepOf(BuildApply(g, acts[k])) :
                   k \in { n \in 1..Len(acts) : acts[n].loc \in Arena } }

\* the match on game.player(), had it taken p1 whoever is to play
DriverSelect_FirstPlayer(g) == 1

\* let p = match game.player() { PlayerOne => &mut p1, PlayerTwo => &mut p2 }
DriverSelect(g) == IF g.player = "PlayerOne" THEN 1 ELSE 2

\* the driver function that has just been called, with no call made yet
DriverEntered ==
    [pc |-> "enter", p |-> 0, prepares |-> 0, steps |-> 0, early |-> FALSE,
     last |-> "none"]

\* play: place_one(&mut p1, &mut p2, santorini::new_game())
DriverInit ==
    /\ game = new_game
    /\ last_op = "new_game"
    /\ builds = 0
    /\ point_tests = Idle
    /\ board_tests = Idle
    /\ script = Idle
    /\ held = Idle
    /\ tree = Idle
    /\ ai = Idle
    /\ playout = Idle
    /\ twin = Idle
    /\ driver = DriverEntered

\* the head of a driver function: the player is selected and prepared
DriverEnterStep ==
    /\ driver.pc = "enter"
    /\ driver' = [driver EXCEPT !.pc = "loop", !.p = DriverSelect(game),
                                !.prepares = driver.prepares + 1]
    /\ UNCHANGED <<game_vars, point_tests, board_tests, script, held, tree, ai, playout,
                   twin>>

\* one iteration of the loop of a driver function: the selected player
\* steps; on NoMove the loop goes on, on Victory the driver returns the
\* score, and on every other result it calls the function of that phase
DriverStepStep ==
    /\ driver.pc = "loop"
    /\ game.phase = "Build" => builds < MaxBuilds
    /\ \E r \in PlayerStep(game) :
         IF r.tag = "NoMove"
         THEN /\ driver.steps < MaxNoMoves
              /\ driver' = [driver EXCEPT !.steps = driver.steps + 1,
                                          !.early = driver.early \/ driver.prepares = 0,
                                          !.last = "NoMove"]
              /\ UNCHANGED game_vars
         ELSE /\ driver' = [DriverEntered EXCEPT
                              !.pc = CASE r.tag = "Victory" -> "done"
                                       [] r.tag = "Panic" -> "panicked"
                                       [] OTHER -> "enter",
                              !.early = driver.early \/ driver.prepares = 0,
                              !.last = r.tag]
              /\ game' = IF r.tag = "Panic" THEN Panicked ELSE r.game
              /\ last_op' = "step"
              /\ builds' = IF game.phase = "Build" THEN builds + 1 ELSE builds
    /\ UNCHANGED <<point_tests, board_tests, script, held, tree, ai, playout, twin>>

DriverNext ==
    \/ DriverEnterStep
    \/ DriverStepStep

DriverSpec == DriverInit /\ [][DriverNext]_vars

\* NodeState::Move, NodeState::Victory
NodeStateMove(g) == [tag |-> "Move", game |-> g]

NodeStateVictory(player) == [tag |-> "Victory", player |-> player]

\* impl From<Game<Move>> for SantoriniNode
SantoriniNodeFrom(g) == [mv |-> None, build |-> None, game |-> NodeStateMove(g)]

RECURSIVE Flatten(_)
Flatten(seqs) == IF seqs = <<>> THEN <<>> ELSE Head(seqs) \o Flatten(Tail(seqs))

\* game.active_pawns().iter().map(|pawn| pawn.actions()).flatten()
active_pawns_actions(g) ==
    move_actions(g, active_pawns(g)[1]) \o move_actions(g, active_pawns(g)[2])

\* the closure possible_actions maps over the moves: one entry for a winning
\* move, else one entry per build after the move
possible_actions_of_move(g, mv) ==
    LET r == MoveApply(g, mv)
    IN  IF r.tag # "Continue"
        THEN << [mv |-> Some(mv), build |-> None, result |-> r] >>
        ELSE LET builds_ == build_actions(r.game, active_pawn(r.game))
             IN  [k \in 1..Len(builds_) |->
                    [mv |-> Some(mv), build |-> Some(builds_[k]),
                     result |-> BuildApply(r.game, builds_[k])]]

\* possible_actions, had it stopped after the first pawn
possible_actions_FirstPawn(g) ==
    LET moves == move_actions(g, active_pawns(g)[1])
    IN  Flatten([k \in 1..Len(moves) |-> possible_actions_of_move(g, moves[k])])

\* possible_actions, collected
possible_actions(g) ==
    LET moves == active_pawns_actions(g)
    IN  Flatten([k \in 1..Len(moves) |-> possible_actions_of_move(g, moves[k])])

\* a panic inside possible_actions: in actions() of a pawn or in an apply
possible_actions_panics(g) ==
    \/ \E i \in 1..2 : actions_panics(g, active_pawns(g)[i])
    \/ LET acts == possible_actions(g)
       IN  \E k \in 1..Len(acts) : acts[k].result.tag = "Panic"

\* SantoriniExpansion::expand
SantoriniExpand(state) ==
    IF state.game.tag = "Victory" THEN <<>>
    ELSE LET acts == possible_actions(state.game.game)
         IN  [k \in 1..Len(acts) |->
                [mv    |-> acts[k].mv,
                 build |-> acts[k].build,
                 game  |-> IF acts[k].result.tag = "Victory"
                           THEN NodeStateVictory(acts[k].result.game.player)
                           ELSE NodeStateMove(acts[k].result.game)]]

(***************************************************************************)
(* The MCTS player (src/src/player/mcts_ai.rs) against a player that picks *)
(* any legal action, driven as src/src/bin/elo.rs drives a game: for each  *)
(* phase, prepare and then step of the player to move.  The player's tree  *)
(* is kept one level deep: the root and the states of its children.  What  *)
(* the search scores is not kept; simulate() may come back with any child  *)
(* it is able to choose.                                                   *)
(***************************************************************************)
\* Node::new of mcts_ai.rs, without score and iterations
AiNodeNew(g) == [mv |-> None, build |-> None, game |-> NodeStateMove(g), children |-> None]

\* a child of Node::expand of mcts_ai.rs, had it been created without its
\* build
AiChild_DropsBuild(c) == [mv |-> c.mv, build |-> None, game |-> c.game, children |-> None]

\* a child as Node::expand of mcts_ai.rs creates it: not yet expanded
AiChild(c) == [mv |-> c.mv, build |-> c.build, game |-> c.game, children |-> None]

\* a node of mcts_ai.rs once Node::expand has run on it
AiExpanded(node) == [node EXCEPT !.children = Some(SantoriniExpand(node))]

\* the first index of a child that satisfies Test, 0 if there is none
RECURSIVE FirstIndex(_, _, _)
FirstIndex(children, Test(_), k) ==
    IF k > Len(children) THEN 0
    ELSE IF Test(children[k]) THEN k
    ELSE FirstIndex(children, Test, k + 1)

\* SantoriniNode::matches
matches(node, g) == node.game.tag = "Move" /\ node.game.game = g

\* Player<Move>::prepare, had it kept the root when no child matches
AiPrepare_KeepsRoot(node, g) ==
    IF node = None THEN [tag |-> "Ok", node |-> AiNodeNew(g)]
    ELSE IF node.val.children = None THEN Panic("Unexpanded root node!")
    ELSE LET children == node.val.children.val
             found    == FirstIndex(children, LAMBDA c : matches(c, g), 1)
         IN  IF found = 0 THEN [tag |-> "Ok", node |-> node.val]
             ELSE [tag |-> "Ok", node |-> AiChild(children[found])]

\* Player<Move>::prepare of MCTSAI: the node it leaves in self.node
AiPrepare(node, g) ==
    IF node = None THEN [tag |-> "Ok", node |-> AiNodeNew(g)]
    ELSE IF node.val.children = None THEN Panic("Unexpanded root node!")
    ELSE LET children == node.val.children.val
             found    == FirstIndex(children, LAMBDA c : matches(c, g), 1)
         IN  IF found = 0 THEN Panic("Tree reset!")
             ELSE [tag |-> "Ok", node |-> AiChild(children[found])]

\* the points random_pt() returns, among those of the arena
AiPoints ==
    { p \in Arena : X(p) \in 1..(BOARD_WIDTH - 2) /\ Y(p) \in 1..(BOARD_HEIGHT - 2) }

\* the children MCTSAI::simulate can replace the expanded root by: the first
\* Victory child if there is one, else a child that has been searched (and
\* so expanded); of these, the explored games take those inside the arena
AiChoices(root) ==
    LET children == root.children.val
        won      == FirstIndex(children, LAMBDA c : c.game.tag = "Victory", 1)
    IN  IF won # 0 THEN { AiChild(children[won]) }
        ELSE { AiExpanded(AiChild(children[k])) :
                 k \in { n \in 1..Len(children) :
                           /\ children[n].mv.val.to \in Arena
                           /\ children[n].build.val.loc \in Arena } }

SearchInit ==
    /\ game = new_game
    /\ last_op = "new_game"
    /\ builds = 0
    /\ point_tests = Idle
    /\ board_tests = Idle
    /\ script = Idle
    /\ held = Idle
    /\ tree = Idle
    /\ playout = Idle
    /\ twin = Idle
    /\ driver = Idle
    /\ \E p \in {"PlayerOne", "PlayerTwo"} :
         ai = [plays |-> p, node |-> None, did |-> "nothing"]

\* Player<PlaceOne>::step and Player<PlaceTwo>::step of MCTSAI, when
\* can_place accepts the two random points
AiPlaceStep ==
    /\ game.phase \in {"PlaceOne", "PlaceTwo"}
    /\ game.player = ai.plays
    /\ \E pt1 \in AiPoints, pt2 \in AiPoints :
         LET a == IF game.phase = "PlaceOne" THEN PlaceOneCanPlace(game, pt1, pt2)
                  ELSE PlaceTwoCanPlace(game, pt1, pt2)
         IN  /\ a.tag = "Some"
             /\ game' = IF game.phase = "PlaceOne"
                        THEN Outcome(PlaceOneApply(game, a.val))
                        ELSE Outcome(PlaceTwoApply(game, a.val))
    /\ last_op' = "place"
    /\ UNCHANGED <<builds, point_tests, board_tests, script, held, tree, ai, playout, twin, driver>>

\* prepare and step of MCTSAI for a Move phase: the tree is reconciled with
\* the game, searched, its root replaced by the chosen child, and the move
\* of that child applied
AiMoveStep ==
    /\ game.phase = "Move"
    /\ game.player = ai.plays
    /\ builds < MaxBuilds
    /\ \E prep \in {AiPrepare(ai.node, game)} :
           IF prep.tag = "Panic"
           THEN /\ game' = Panicked
                /\ ai' = [ai EXCEPT !.did = "panic"]
           ELSE \E root \in {AiExpanded(prep.node)} : \E child \in AiChoices(root) :
                  /\ ai' = [ai EXCEPT !.node = Some(child),
                                      !.did = IF ai.node = None THEN "new" ELSE "child"]
                  /\ game' = Outcome(MoveApply(game, child.mv.val))
    /\ last_op' = "move"
    /\ UNCHANGED <<builds, point_tests, board_tests, script, held, tree, playout, twin, driver>>

\* step of MCTSAI for a Build phase: the build of the root is applied
AiBuildStep ==
    /\ game.phase = "Build"
    /\ game.player = ai.plays
    /\ game' = IF ai.node.val.build = None THEN Panicked
               ELSE Outcome(BuildApply(game, ai.node.val.build.val))
    /\ last_op' = "build"
    /\ builds' = builds + 1
    /\ UNCHANGED <<point_tests, board_tests, script, held, tree, ai, playout, twin, driver>>

\* the other player's turn to place, move or build
OpponentStep ==
    /\ game.phase \in {"PlaceOne", "PlaceTwo", "Move", "Build"}
    /\ game.player # ai.plays
    /\ \/ PlaceOneStep
       \/ PlaceTwoStep
       \/ MoveStep
       \/ BuildStep

SearchNext ==
    \/ AiPlaceStep
    \/ AiMoveStep
    \/ AiBuildStep
    \/ OpponentStep

SearchSpec == SearchInit /\ [][SearchNext]_vars

(***************************************************************************)
(* SantoriniSimulation::simulate (src/src/mcts/santorini.rs): a playout    *)
(* from a node of a tree over a played game.  While a playout runs, `game` *)
(* is the local variable game of simulate; of the node simulate was        *)
(* entered with, playout keeps the kind of its state and the player of it, *)
(* and it counts the turns find_action has made.                           *)
(***************************************************************************)
\* the builds of the played game a playout starts from
PrefixBuilds == 3

\* the builds after which a playout is no longer followed
PlayoutBuilds == 4

\* enum PossibleAction
PossibleVictory == [tag |-> "Victory"]

PossibleContinue(g) == [tag |-> "Continue", game |-> g]

\* the indices of the (mv, build) pairs after which the game continues
ContinueIndices(acts) == { k \in 1..Len(acts) : acts[k].result.tag = "Continue" }

\* the random draws of find_action, had the first draw been able to fail
Draws_FirstMayFail(acts) == ContinueIndices(acts) \cup {0}

\* what the random draws of find_action can amount to: the index of the last
\* pair whose draw succeeded.  The first draw is gen() < 1.0 / 1.0 and always
\* succeeds, so it is 0 (no pair taken) only if no pair continues the game
Draws(acts) ==
    IF ContinueIndices(acts) = {} THEN {0} ELSE ContinueIndices(acts)

\* find_action on game g, whose (mv, build) pairs are acts, with the pair
\* pick that the draws have taken
find_action(g, acts, pick) ==
    IF \E k \in 1..Len(acts) : acts[k].result.tag = "Victory"
    THEN PossibleVictory
    ELSE IF pick = 0 THEN PossibleContinue(g)
    ELSE PossibleContinue(acts[pick].result.game)

\* the value simulate returns on Victory, had it not compared the players
SimulateReturn_AlwaysLoss(g, player) == -1

\* the value simulate returns when find_action reports Victory in game g
SimulateReturn(g, player) == IF g.player = player THEN -1 ELSE 1

\* the nodes of a tree over the game g: its root and what expansion adds
TreeNodes(g) ==
    LET kids == SantoriniExpand(SantoriniNodeFrom(g))
    IN  {SantoriniNodeFrom(g)} \cup { kids[k] : k \in 1..Len(kids) }

PlayoutInit ==
    /\ game = new_game
    /\ last_op = "new_game"
    /\ builds = 0
    /\ point_tests = Idle
    /\ board_tests = Idle
    /\ script = Idle
    /\ held = Idle
    /\ tree = Idle
    /\ ai = Idle
    /\ playout = [pc |-> "idle", start |-> "None", player |-> "PlayerOne", turns |-> 0,
                  result |-> 0]
    /\ twin = Idle
    /\ driver = Idle

\* the game that is played before the search looks at it
PlayedStep ==
    /\ playout.pc = "idle"
    /\ \/ PlaceOneStep
       \/ PlaceTwoStep
       \/ MoveStep
       \/ BuildWithin(PrefixBuilds)

\* the turns that the explored playouts follow: those inside the arena
InArena(act) == act.mv.val.to \in Arena /\ act.build.val.loc \in Arena

\* simulate is entered with a node: a Victory node returns 1.0 at once
SimulateStartStep ==
    /\ playout.pc = "idle"
    /\ game.phase = "Move"
    /\ \E state \in TreeNodes(game) :
         IF state.game.tag = "Victory"
         THEN /\ playout' = [pc |-> "done", start |-> "Victory",
                             player |-> state.game.player, turns |-> 0, result |-> 1]
              /\ UNCHANGED game
         ELSE /\ state.mv # None => InArena(state)
              /\ playout' = [pc |-> "run", start |-> "Move",
                             player |-> state.game.game.player, turns |-> 0, result |-> 0]
              /\ game' = state.game.game
    /\ last_op' = "simulate"
    /\ UNCHANGED <<builds, point_tests, board_tests, script, held, tree, ai, twin, driver>>

\* one iteration of the loop of simulate.  A playout that leaves the arena
\* or exceeds PlayoutBuilds is cut: it is not followed any further
SimulateTurnStep ==
    /\ playout.pc = "run"
    /\ \E acts \in {possible_actions(game)} :
         IF find_action(game, acts, 0).tag = "Victory"
         THEN /\ playout' = [playout EXCEPT !.pc = "done",
                               !.result = SimulateReturn(game, playout.player)]
              /\ UNCHANGED <<game, builds>>
         ELSE \/ /\ { pick \in Draws(acts) \ {0} :
                        builds >= PlayoutBuilds \/ ~InArena(acts[pick]) } # {}
                 /\ playout' = [playout EXCEPT !.pc = "cut"]
                 /\ UNCHANGED <<game, builds>>
              \/ /\ builds < PlayoutBuilds
                 /\ \E pick \in { k \in Draws(acts) : k = 0 \/ InArena(acts[k]) } :
                      /\ game' = find_action(game, acts, pick).game
                      /\ builds' = IF pick = 0 THEN builds ELSE builds + 1
                 /\ playout' = [playout EXCEPT !.turns = @ + 1]
    /\ last_op' = "find_action"
    /\ UNCHANGED <<point_tests, board_tests, script, held, tree, ai, twin, driver>>

PlayoutNext ==
    \/ PlayedStep
    \/ SimulateStartStep
    \/ SimulateTurnStep

PlayoutSpec == PlayoutInit /\ [][PlayoutNext]_vars

\* The loop of simulate has no exit but its return, so a running playout
\* keeps taking turns: weak fairness of SimulateTurnStep, written out with
\* the guard of the step, playout.pc = "run", for its enabledness
PlayoutFairSpec ==
    /\ PlayoutSpec
    /\ \/ []<><<SimulateTurnStep>>_vars
       \/ []<>(playout.pc # "run")

(***************************************************************************)
(* Properties.  The rules of the game are restated here on cell levels and *)
(* pawn positions, without the bit tricks the engine uses.                 *)
(***************************************************************************)
InPlay == game.phase \in {"Move", "Build", "Victory"}

\* the four pawns: PlayerOne's two, then PlayerTwo's two
AllPawns(g) ==
    << [pos |-> g.player1_locs[1], player |-> "PlayerOne"],
       [pos |-> g.player1_locs[2], player |-> "PlayerOne"],
       [pos |-> g.player2_locs[1], player |-> "PlayerTwo"],
       [pos |-> g.player2_locs[2], player |-> "PlayerTwo"] >>

\* the cells the four pawns stand on
PawnCells(g) ==
    {g.player1_locs[1], g.player1_locs[2], g.player2_locs[1], g.player2_locs[2]}

Height(board, p) == LevelToI8(level_at(board, p))

\* the rule of a legal step
RuleCanMove(g, pawn, to) ==
    /\ pawn.player = g.player
    /\ Max(Abs(X(to) - X(pawn.pos)), Abs(Y(to) - Y(pawn.pos))) = 1
    /\ to \notin PawnCells(g)
    /\ level_at(g.board, to) # "Capped"
    /\ Height(g.board, to) <= Height(g.board, pawn.pos) + 1

\* the rule of a legal build
RuleCanBuild(g, pawn, loc) ==
    /\ pawn.pos = g.active_loc
    /\ Max(Abs(X(loc) - X(pawn.pos)), Abs(Y(loc) - Y(pawn.pos))) = 1
    /\ level_at(g.board, loc) # "Capped"
    /\ loc \notin PawnCells(g)

\* the in-bounds cells around p, in the order of OFFSETS
Around(p) ==
    LET c(i) == PointNew_(X(p) + OFFSETS[i][1], Y(p) + OFFSETS[i][2])
        idx  == SelectSeq(<<1, 2, 3, 4, 5, 6, 7, 8>>, LAMBDA i : c(i).tag = "Some")
    IN  [k \in 1..Len(idx) |-> c(idx[k]).val]

\* every legal MoveAction of g: what can_move accepts and what actions() yields
LegalMoves(g) ==
    { can_move(g, active_pawns(g)[i], to).val :
        <<i, to>> \in { q \in (1..2) \X AllPoints :
                          can_move(g, active_pawns(g)[q[1]], q[2]).tag = "Some" } }
    \cup UNION { { move_actions(g, active_pawns(g)[i])[k] :
                     k \in 1..Len(move_actions(g, active_pawns(g)[i])) } : i \in 1..2 }

\* every legal BuildAction of g
LegalBuilds(g) ==
    { can_build(g, active_pawn(g), loc).val :
        loc \in { q \in AllPoints : can_build(g, active_pawn(g), q).tag = "Some" } }
    \cup { build_actions(g, active_pawn(g))[k] :
             k \in 1..Len(build_actions(g, active_pawn(g))) }

\* C1: a legal move wins exactly when its target is at level Three, and then
\* the mover is the winner; otherwise the game continues in Build with
\* active_loc = m.to and the same active player.
C1_MoveApplyResult ==
    game.phase = "Move" =>
        \A m \in LegalMoves(game) :
            LET r == MoveApply(game, m)
            IN  /\ r.tag \in {"Victory", "Continue"}
                /\ (r.tag = "Victory") <=> (level_at(game.board, m.to) = "Three")
                /\ r.tag = "Victory" =>
                     /\ r.game.phase = "Victory"
                     /\ r.game.player = game.player
                /\ r.tag = "Continue" =>
                     /\ r.game.phase = "Build"
                     /\ r.game.active_loc = m.to
                     /\ r.game.player = game.player

\* C1 witness: a game won by stepping onto a level-Three cell
C1_Witness ==
    /\ game.phase = "Victory"
    /\ last_op = "move"
    /\ \E p \in PawnCells(game) : level_at(game.board, p) = "Three"

\* the Move position the rules prescribe after building on loc in g
AfterBuild(g, loc) ==
    [phase |-> "Move",
     player1_locs |-> g.player1_locs,
     player2_locs |-> g.player2_locs,
     board |-> build(g.board, loc).grid,
     player |-> Other(g.player)]

SomeRuleMove(g) ==
    \E i \in 1..2, to \in AllPoints : RuleCanMove(g, active_pawns(g)[i], to)

\* C2: a legal build ends the game exactly when the opponent has no legal
\* move in the position after the build, and then the builder wins; otherwise
\* the game continues with the opponent to move, who has a legal move.
C2_BuildApplyResult ==
    game.phase = "Build" =>
        \A b \in LegalBuilds(game) :
            LET r == BuildApply(game, b)
            IN  /\ r.tag \in {"Victory", "Continue"}
                /\ (r.tag = "Victory") <=> ~SomeRuleMove(AfterBuild(game, b.loc))
                /\ r.tag = "Victory" =>
                     /\ r.game.phase = "Victory"
                     /\ r.game.player = game.player
                /\ r.tag = "Continue" =>
                     /\ r.game.phase = "Move"
                     /\ r.game.player = Other(game.player)
                     /\ SomeRuleMove(r.game)

\* C2 witness: a game won by stalemate: the build left the opponent no move
C2_Witness ==
    /\ game.phase = "Victory"
    /\ last_op = "build"
    /\ ~SomeRuleMove([game EXCEPT !.phase = "Move", !.player = Other(game.player)])

\* the destinations of p that can_move accepts, in the order of OFFSETS
CanMoveTargets(g, pawn) ==
    SelectSeq(Around(pawn.pos), LAMBDA to : can_move(g, pawn, to).tag = "Some")

C4_CanMoveRule ==
    game.phase = "Move" =>
        \A i \in 1..4, to \in AllPoints :
            LET pawn == AllPawns(game)[i]
                r    == can_move(game, pawn, to)
            IN  /\ r.tag \in {"Some", "None"}
                /\ (r.tag = "Some") <=> RuleCanMove(game, pawn, to)

\* C4 witness: a pawn on level Two that may step down to Ground, next to a
\* cell it may not step onto
C4_Witness ==
    /\ game.phase = "Move"
    /\ \E i \in 1..2, to \in AllPoints, no \in AllPoints :
         LET pawn == active_pawns(game)[i]
         IN  /\ level_at(game.board, pawn.pos) = "Two"
             /\ level_at(game.board, to) = "Ground"
             /\ can_move(game, pawn, to).tag = "Some"
             /\ Distance(pawn.pos, no) = 1
             /\ can_move(game, pawn, no).tag = "None"

\* the locations p may build on by the rule, in the order of OFFSETS
RuleBuildTargets(g, pawn) ==
    SelectSeq(Around(pawn.pos), LAMBDA loc : RuleCanBuild(g, pawn, loc))

\* C5: can_build is Some exactly for the pawn on active_loc and an adjacent
\* cell that is neither Capped nor occupied; actions() yields exactly these
\* in neighbour order, and nothing for the three other pawns.
C5_CanBuildRule ==
    game.phase = "Build" =>
        \A i \in 1..4 :
            LET pawn == AllPawns(game)[i]
                acts == build_actions(game, pawn)
            IN  /\ \A loc \in AllPoints :
                     LET r == can_build(game, pawn, loc)
                     IN  /\ r.tag \in {"Some", "None"}
                         /\ (r.tag = "Some") <=> RuleCanBuild(game, pawn, loc)
                /\ [k \in 1..Len(acts) |-> acts[k].loc] = RuleBuildTargets(game, pawn)
                /\ pawn.pos # game.active_loc => acts = <<>>

\* C5 witness: the active pawn stands next to a Capped cell and next to a
\* pawn, and can still build somewhere
C5_Witness ==
    /\ game.phase = "Build"
    /\ \E capped \in AllPoints, occ \in PawnCells(game) :
         /\ Distance(game.active_loc, capped) = 1
         /\ level_at(game.board, capped) = "Capped"
         /\ Distance(game.active_loc, occ) = 1
         /\ can_build(game, active_pawn(game), capped).tag = "None"
         /\ can_build(game, active_pawn(game), occ).tag = "None"
    /\ Len(build_actions(game, active_pawn(game))) > 0

\* coordinates differ
Apart(p, q) == X(p) # X(q) \/ Y(p) # Y(q)

\* C6: PlaceOne accepts (p1, p2) exactly when p1 # p2; PlaceTwo exactly when
\* p1 # p2 and neither is a position of PlayerOne's pawns; a refusal is None.
C6_PlacementLegality ==
    /\ game.phase = "PlaceOne" =>
         \A p1 \in AllPoints, p2 \in AllPoints :
             LET r == PlaceOneCanPlace(game, p1, p2)
             IN  /\ r.tag \in {"Some", "None"}
                 /\ (r.tag = "Some") <=> Apart(p1, p2)
    /\ game.phase = "PlaceTwo" =>
         \A p1 \in AllPoints, p2 \in AllPoints :
             LET r == PlaceTwoCanPlace(game, p1, p2)
             IN  /\ r.tag \in {"Some", "None"}
                 /\ (r.tag = "Some") <=>
                      /\ Apart(p1, p2)
                      /\ \A i \in 1..2 : Apart(p1, game.player1_locs[i])
                      /\ \A i \in 1..2 : Apart(p2, game.player1_locs[i])

\* C6 witness: PlayerTwo is refused a cell of PlayerOne and offered another
C6_Witness ==
    /\ game.phase = "PlaceTwo"
    /\ \E p1 \in AllPoints, p2 \in AllPoints :
         /\ Apart(p1, p2)
         /\ PlaceTwoCanPlace(game, p1, p2).tag = "None"
         /\ PlaceTwoCanPlace(game, p1, game.player1_locs[1]).tag = "None"
    /\ \E p1 \in AllPoints, p2 \in AllPoints : PlaceTwoCanPlace(game, p1, p2).tag = "Some"

AllGround(board) == \A p \in AllPoints : level_at(board, p) = "Ground"

\* C7: new_game is PlaceOne with PlayerOne active on an all-Ground board;
\* PlaceOne.apply yields PlaceTwo with PlayerTwo active and PlayerOne's pawns
\* at (pos1, pos2); PlaceTwo.apply yields Move with PlayerOne active and
\* PlayerTwo's pawns at (pos1, pos2); the board is unchanged and a placement
\* never yields Victory.
C7_PlacementPhases ==
    /\ last_op = "new_game" =>
         /\ game.phase = "PlaceOne"
         /\ game.player = "PlayerOne"
         /\ AllGround(game.board)
    /\ game.phase = "PlaceOne" =>
         \A p1 \in AllPoints, p2 \in AllPoints :
             LET a == PlaceOneCanPlace(game, p1, p2)
                 r == PlaceOneApply(game, a.val)
             IN  a.tag = "Some" =>
                   /\ r.tag = "Continue"
                   /\ r.game.phase = "PlaceTwo"
                   /\ r.game.player = "PlayerTwo"
                   /\ r.game.player1_locs = <<p1, p2>>
                   /\ r.game.board = game.board
    /\ game.phase = "PlaceTwo" =>
         \A p1 \in AllPoints, p2 \in AllPoints :
             LET a == PlaceTwoCanPlace(game, p1, p2)
                 r == PlaceTwoApply(game, a.val)
             IN  a.tag = "Some" =>
                   /\ r.tag = "Continue"
                   /\ r.game.phase = "Move"
                   /\ r.game.player = "PlayerOne"
                   /\ r.game.player1_locs = game.player1_locs
                   /\ r.game.player2_locs = <<p1, p2>>
                   /\ r.game.board = game.board
    /\ last_op = "place" =>
         /\ game.phase \in {"PlaceTwo", "Move"}
         /\ AllGround(game.board)

\* C7 witness: both placements made, PlayerOne to move
C7_Witness ==
    /\ game.phase = "Move"
    /\ last_op = "place"
    /\ game.player = "PlayerOne"

\* C8: in every Move, Build and Victory state the four pawn positions are
\* pairwise distinct.
C8_PawnsDistinct ==
    InPlay => \A i \in 1..4, j \in 1..4 :
                 i # j => Apart(AllPawns(game)[i].pos, AllPawns(game)[j].pos)

\* C8 witness: a resigned game in which both players have moved next to
\* each other
C8_Witness ==
    /\ game.phase = "Victory"
    /\ last_op = "resign"
    /\ builds >= 2
    /\ \E i \in 1..2, j \in 1..2 :
         Distance(game.player1_locs[i], game.player2_locs[j]) = 1

\* C9: in every Build state active_loc is a position of the active player's
\* pawns and no position of the other player's.
C9_ActiveLocIsActivePawn ==
    game.phase = "Build" =>
        /\ \E i \in 1..2 : player_locs(game, game.player)[i] = game.active_loc
        /\ \A i \in 1..2 : player_locs(game, Other(game.player))[i] # game.active_loc

\* C9 witness: PlayerTwo has just moved its second pawn
C9_Witness ==
    /\ game.phase = "Build"
    /\ game.player = "PlayerTwo"
    /\ game.active_loc = game.player2_locs[2]

\* C10: in every Move, Build and Victory state no pawn stands on a Capped
\* cell.
C10_NoPawnOnCapped ==
    InPlay => \A p \in PawnCells(game) : level_at(game.board, p) # "Capped"

\* C10 witness: a pawn stands next to a Capped cell
C10_Witness ==
    /\ InPlay
    /\ \E p \in PawnCells(game), c \in AllPoints :
         /\ Distance(p, c) = 1
         /\ level_at(game.board, c) = "Capped"

\* C11: in every Move and Build state every pawn stands on Ground, One or
\* Two, never on Three, so that level_limit, has_actions and actions do not
\* reach their panic arm for any pawn, and the game never panics.
C11_PawnNeverOnThree ==
    /\ game.phase # "Panicked"
    /\ game.phase \in {"Move", "Build"} =>
         \A i \in 1..4 :
             LET pawn == AllPawns(game)[i]
             IN  /\ level_at(game.board, pawn.pos) \in {"Ground", "One", "Two"}
                 /\ level_limit(game, pawn) # "Panic"
                 /\ ~has_actions_panics(game, pawn)
                 /\ ~actions_panics(game, pawn)

\* C11 witness: a pawn on level Two may step onto a level-Three cell
C11_Witness ==
    /\ game.phase = "Move"
    /\ \E i \in 1..2, to \in AllPoints :
         LET pawn == active_pawns(game)[i]
         IN  /\ level_at(game.board, pawn.pos) = "Two"
             /\ level_at(game.board, to) = "Three"
             /\ can_move(game, pawn, to).tag = "Some"

\* RandomAI::step (Move) : the actions of both active pawns, collected
AllMoveActions(g) ==
    move_actions(g, active_pawns(g)[1]) \o move_actions(g, active_pawns(g)[2])

\* actions() of one of the two active pawns yields something
HasMoveActions(g) ==
    \E i \in 1..2 : move_actions(g, active_pawns(g)[i]) # <<>>

\* C12: every Move state the engine produces (PlaceTwo.apply on any legal
\* placement, a Continue of Build.apply on any legal build) has at least one
\* legal move for its active player: the list a player picks its move from
\* is never empty.
C12_NoStalematedMove ==
    /\ game.phase = "Move" =>
         /\ AllMoveActions(game) # <<>>
         /\ SomeRuleMove(game)
    /\ game.phase = "PlaceTwo" =>
         \A p1 \in AllPoints, p2 \in AllPoints :
             LET a == PlaceTwoCanPlace(game, p1, p2)
             IN  a.tag = "Some" => HasMoveActions(PlaceTwoApply(game, a.val).game)
    /\ game.phase = "Build" =>
         \A b \in LegalBuilds(game) :
             LET r == BuildApply(game, b)
             IN  r.tag = "Continue" => HasMoveActions(r.game)

\* C12 witness: after a build the player to move has one pawn that cannot
\* move at all and one that can
C12_Witness ==
    /\ game.phase = "Move"
    /\ last_op = "build"
    /\ \E i \in 1..2 :
         /\ move_actions(game, active_pawns(game)[i]) = <<>>
         /\ move_actions(game, active_pawns(game)[3 - i]) # <<>>

\* the 4-bit field of a cell
Field(board, p) == board[p.word][p.nibble \div 4]

\* C13: after any sequence of builds and caps on a fresh board the field of
\* every cell is 0001, 0010, 0100, 1000 or 0000, and level_at decodes it
\* without panicking.
C13_FieldsWellFormed ==
    board_tests.pc # "idle" =>
        \A p \in AllPoints :
            /\ Field(board_tests.board, p) \in {1, 2, 4, 8, 0}
            /\ level_at(board_tests.board, p) \in CoordLevel

\* C13 witness: one cell built up to Three, another capped after two builds
C13_Witness ==
    /\ board_tests.pc = "run"
    /\ \E k \in 1..2 :
         /\ board_tests.nbuilds[k] = 3
         /\ ~board_tests.capped[k]
         /\ Field(board_tests.board, board_tests.cells[k]) = 8
         /\ board_tests.nbuilds[3 - k] = 2
         /\ board_tests.capped[3 - k]
         /\ Field(board_tests.board, board_tests.cells[3 - k]) = 0

\* the level n builds raise a Ground cell to
NthLevel(n) ==
    CASE n = 0 -> "Ground"
      [] n = 1 -> "One"
      [] n = 2 -> "Two"
      [] n = 3 -> "Three"
      [] n = 4 -> "Capped"

\* C14: a fresh board reads Ground everywhere; a cell that was built on n
\* times (n = 0..4, never capped) reads the n-th level; a build changes the
\* level of no other cell; the build after the fourth panics, and no
\* earlier one does.
C14_BuildLevels ==
    board_tests.pc # "idle" =>
        /\ AllGround(BoardNew)
        /\ \A p \in AllPoints :
             (\A k \in 1..2 : p # board_tests.cells[k]) =>
                 level_at(board_tests.board, p) = "Ground"
        /\ \A k \in 1..2 :
             LET pt == board_tests.cells[k]
                 n  == board_tests.nbuilds[k]
                 r  == build(board_tests.board, pt)
             IN  ~board_tests.capped[k] =>
                   /\ n \in 0..4
                   /\ level_at(board_tests.board, pt) = NthLevel(n)
                   /\ IsPanic(r) <=> n = 4
                   /\ ~IsPanic(r) =>
                        /\ level_at(r.grid, pt) = NthLevel(n + 1)
                        /\ \A q \in AllPoints :
                             q # pt => level_at(r.grid, q) = level_at(board_tests.board, q)

\* C14 witness: the fifth build on a cell has panicked, the other cell of
\* the run standing at One
C14_Witness ==
    /\ board_tests.pc = "panicked"
    /\ board_tests.nbuilds = <<4, 1>>
    /\ board_tests.capped = <<FALSE, FALSE>>
    /\ level_at(board_tests.board, board_tests.cells[1]) = "Capped"
    /\ level_at(board_tests.board, board_tests.cells[2]) = "One"

\* C15: on every board made by builds and caps, for every cell p and level
\* L, less_than_equals(p, L) holds exactly when level_at(p) <= L in the order
\* Ground < One < Two < Three < Capped.
C15_LessThanEquals ==
    board_tests.pc # "idle" =>
        \A p \in AllPoints, L \in CoordLevel :
            less_than_equals(board_tests.board, p, L)
              <=> LevelToI8(level_at(board_tests.board, p)) <= LevelToI8(L)

\* C15 witness: a cell at Two (above One, not above Two) next to a capped
\* cell (below Capped only)
C15_Witness ==
    /\ board_tests.pc = "run"
    /\ \E k \in 1..2 :
         LET b == board_tests.board
             p == board_tests.cells[k]
             q == board_tests.cells[3 - k]
         IN  /\ level_at(b, p) = "Two"
             /\ ~less_than_equals(b, p, "One")
             /\ less_than_equals(b, p, "Two")
             /\ level_at(b, q) = "Capped"
             /\ ~less_than_equals(b, q, "Three")
             /\ less_than_equals(b, q, "Capped")

InBounds(x, y) == x \in 0..4 /\ y \in 0..4

\* C16: Point::new_(x, y) is None exactly when x or y is outside 0..4; for
\* in-bounds (x, y) the point p it returns has p.x() = x, p.y() = y and
\* Point::new_(p.x(), p.y()) = Some(p), and no other in-bounds coordinates
\* give the same (word, nibble).
C16_PointRoundTrip ==
    /\ point_tests.pc \in {"new_", "x_y", "neighbors"} =>
         /\ point_tests.point.tag \in {"Some", "None"}
         /\ (point_tests.point.tag = "None")
              <=> ~InBounds(point_tests.x, point_tests.y)
         /\ point_tests.point.tag = "Some" =>
              \A x2 \in 0..4, y2 \in 0..4 :
                  <<x2, y2>> # <<point_tests.x, point_tests.y>> =>
                      /\ PointNew_(x2, y2).tag = "Some"
                      /\ PointNew_(x2, y2).val # point_tests.point.val
    /\ point_tests.pc = "x_y" =>
         /\ point_tests.px = point_tests.x
         /\ point_tests.py = point_tests.y
         /\ point_tests.again = Some(point_tests.point.val)

\* C16 witness: (4, 4) made a point of the second word and read back
C16_Witness ==
    /\ point_tests.pc = "x_y"
    /\ point_tests.x = 4
    /\ point_tests.y = 4
    /\ point_tests.point.val.word = 1
    /\ point_tests.again = point_tests.point

\* the rank of the offset from p to q in row-major order of (dy, dx)
OffsetRank(p, q) == 3 * (Y(q) - Y(p) + 1) + (X(q) - X(p) + 1)

\* C17: neighbors() of a pawn on p yields exactly the cells of the board at
\* Chebyshev distance 1 from p, each once, in the order of the offsets
\* (-1,-1),(0,-1),(1,-1),(-1,0),(1,0),(-1,1),(0,1),(1,1): 3 cells in a corner,
\* 5 on an edge, 8 inside.
C17_NeighborsExact ==
    point_tests.pc = "neighbors" =>
        LET p     == point_tests.point.val
            nbrs  == point_tests.nbrs
            onX   == point_tests.x \in {0, 4}
            onY   == point_tests.y \in {0, 4}
        IN  /\ { nbrs[i] : i \in 1..Len(nbrs) }
                 = { PointNew(x2, y2) : <<x2, y2>> \in
                       { c \in (0..4) \X (0..4) :
                           Max(Abs(c[1] - point_tests.x), Abs(c[2] - point_tests.y)) = 1 } }
            /\ \A i \in 1..Len(nbrs), j \in 1..Len(nbrs) :
                 i < j => OffsetRank(p, nbrs[i]) < OffsetRank(p, nbrs[j])
            /\ Len(nbrs) = IF onX /\ onY THEN 3 ELSE IF onX \/ onY THEN 5 ELSE 8

\* C17 witness: a pawn on the edge cell (0, 3), whose five neighbours lie in
\* both words of the board
C17_Witness ==
    /\ point_tests.pc = "neighbors"
    /\ point_tests.x = 0
    /\ point_tests.y = 3
    /\ Len(point_tests.nbrs) = 5
    /\ point_tests.nbrs[1].word = 0
    /\ point_tests.nbrs[5].word = 1

\* C18: for every Move or Build game g, g.resign() is a Victory won by the
\* opponent of g's active player, with the board and the four pawn positions
\* of g.
C18_ResignResult ==
    /\ game.phase \in {"Move", "Build"} =>
         LET v == resign(game)
         IN  /\ v.phase = "Victory"
             /\ v.player = Other(game.player)
             /\ v.player # game.player
             /\ v.board = game.board
             /\ v.player1_locs = game.player1_locs
             /\ v.player2_locs = game.player2_locs
             /\ DOMAIN v = {"phase", "player", "board", "player1_locs", "player2_locs"}
    /\ last_op = "resign" => game.phase = "Victory"

\* C18 witness: PlayerTwo has resigned on a board that has been built on;
\* PlayerOne is the winner
C18_Witness ==
    /\ game.phase = "Victory"
    /\ last_op = "resign"
    /\ game.player = "PlayerOne"
    /\ ~AllGround(game.board)

\* C19: once a game is in Victory it is final: no operation acts on it and
\* its winner never changes.
C19_VictoryIsFinal ==
    [][game.phase = "Victory" =>
          /\ game'.phase = "Victory"
          /\ game'.player = game.player
          /\ game' = game]_vars

\* the victory test has made its last call
ScriptDone == script.pc = Len(VictoryScript) + 1

\* C20 with PlayerTwo as the winner: the last move of the victory test, onto
\* the level-Three cell (2,1), returns Victory with PlayerTwo as winner.
C20_VictoryTestPlayerTwo ==
    ScriptDone /\ script.shift = <<0, 0>> =>
        /\ game.phase = "Victory"
        /\ level_at(game.board, ScriptPoint(<<2, 1>>)) = "Three"
        /\ game.player = "PlayerTwo"

\* C20 with PlayerOne as the winner: the calls of the victory test all
\* succeed; the last move takes the second pawn of PlayerOne (placed on
\* (2,2)) from (1,1) onto the level-Three cell (2,1) and returns Victory
\* with PlayerOne, the mover, as winner.
C20_VictoryTestPlayerOne ==
    /\ "shift" \in DOMAIN script => game.phase # "Panicked"
    /\ ScriptDone =>
         /\ game.phase = "Victory"
         /\ last_op = "move"
         /\ level_at(game.board, ScriptPoint(<<2, 1>>)) = "Three"
         /\ game.player1_locs[2] = ScriptPoint(<<2, 1>>)
         /\ game.player = "PlayerOne"

\* C20 witness: the test as written has run to its end
C20_Witness ==
    /\ ScriptDone
    /\ script.shift = <<0, 0>>
    /\ game.phase = "Victory"
    /\ builds = 6
    /\ game.player1_locs = <<PointNew(1, 0), PointNew(2, 1)>>
    /\ game.player2_locs = <<PointNew(2, 0), PointNew(1, 2)>>

(***************************************************************************)
(* C21: in a debug build, applying a MoveAction, BuildAction or            *)
(* PlaceAction to a game other than the one it was derived from panics     *)
(* and yields no successor game.                                           *)
(***************************************************************************)
\* the kept action was derived from a game other than g
Stale(action, g) == action.game # g

\* C21: a kept action that is stale for the current game makes apply panic,
\* and after a stale action was applied the program has panicked: there is
\* no successor game
C21_StaleActionPanics ==
    /\ (held.pc = "held" /\ held.kind = game.phase /\ Stale(held.action, game))
          => ApplyHeld(game, held.action).tag = "Panic"
    /\ (held.pc = "used" /\ Stale(held.action, held.applied_to))
          => game = Panicked

\* a MoveAction kept from an earlier turn was applied when its `from` was
\* again a pawn of the player to move, and the program panicked
C21_Witness ==
    /\ held.pc = "used"
    /\ held.kind = "Move"
    /\ Stale(held.action, held.applied_to)
    /\ \E i \in 1..2 : active_pawns(held.applied_to)[i].pos = held.action.from
    /\ game = Panicked

(***************************************************************************)
(* Properties of the search tree                                           *)
(***************************************************************************)
\* every node of the tree below (and including) node
RECURSIVE Nodes(_)
Nodes(node) ==
    {node} \cup
    (IF node.children = None THEN {}
     ELSE UNION { Nodes(node.children.val[i]) : i \in 1..Len(node.children.val) })

\* the states of a list of nodes, in order
StatesOf(children) == [i \in 1..Len(children) |-> children[i].state]

\* the sum of the scores of a list of nodes, as a fraction <<num, den>> not
\* in lowest terms
RECURSIVE ScoreSum(_)
ScoreSum(children) ==
    IF Len(children) = 0 THEN <<0, 1>>
    ELSE LET rest == ScoreSum(Tail(children))
             head == children[1].score
         IN  << head[1] * rest[2] + rest[1] * head[2], head[2] * rest[2] >>

\* two fractions denote the same number
SameNumber(a, b) == a[1] * b[2] = b[1] * a[2]

\* C22: every node of the tree has been visited at least once, has a score
\* between -1 and +1, and is either unexpanded or has exactly the states of
\* the expansion policy as its children, in the same order
C22_NodeInvariant ==
    tree.pc # "idle" =>
      \A n \in Nodes(tree.root_node) :
        /\ n.iterations >= 1
        /\ n.score[2] > 0
        /\ -n.score[2] <= n.score[1]
        /\ n.score[1] <= n.score[2]
        /\ \/ n.children = None
           \/ StatesOf(n.children.val) = NimExpand(n.state)

\* a step went through an expanded child of the root: the tree has three
\* levels and the root's score is a proper fraction
C22_Witness ==
    /\ tree.pc = "advance"
    /\ tree.op = "step"
    /\ tree.root_node.children # None
    /\ \E i \in 1..Len(tree.root_node.children.val) :
         /\ tree.root_node.children.val[i].children # None
         /\ Len(tree.root_node.children.val[i].children.val) = 2
    /\ tree.root_node.score[2] > 1

\* C23: expand panics on an expanded node; on an unexpanded node with
\* visits v and score s it makes one fresh child per state of the expansion
\* policy (visits 1, unexpanded, score = its simulation), and leaves the node
\* with these children, visits v + n and score (s*v - sum of child scores)/(v+n)
C23_ExpandEffect ==
    tree.pc # "idle" =>
      /\ \A node \in Nodes(tree.root_node) : \A sims \in SimStreams :
           LET r      == NodeExpand(node, sims)
               states == NimExpand(node.state)
               n      == Len(states)
               v      == node.iterations
               s      == node.score
           IN  IF node.children # None THEN r.tag = "Panic"
               ELSE /\ r.tag = "Ok"
                    /\ r.node.children.tag = "Some"
                    /\ Len(r.node.children.val) = n
                    /\ \A i \in 1..n :
                         r.node.children.val[i] =
                           [children |-> None, iterations |-> 1,
                            score |-> sims[i], state |-> states[i]]
                    /\ r.node.state = node.state
                    /\ r.node.iterations = v + n
                    /\ LET sum == ScoreSum(r.node.children.val)
                       IN  SameNumber(r.node.score,
                                      << s[1] * v * sum[2] - sum[1] * s[2],
                                         s[2] * sum[2] * (v + n) >>)
      /\ (tree.op = "expand" /\ tree.before.children # None) => tree.pc = "panicked"
      /\ (tree.op = "expand" /\ tree.before.children = None) => tree.pc # "panicked"

\* expand was called on an unexpanded root that has two successor states,
\* and the two simulations agreed
C23_Witness ==
    /\ tree.pc # "idle"
    /\ tree.op = "expand"
    /\ tree.before.children = None
    /\ tree.root_node.children # None
    /\ Len(tree.root_node.children.val) = 2
    /\ tree.root_node.children.val[1].score = tree.root_node.children.val[2].score

\* C24 as stated: expand returns the number of new children and the sum of
\* their scores
C24_ExpandReturnsSum ==
    tree.pc # "idle" =>
      \A node \in Nodes(tree.root_node) : \A sims \in SimStreams :
        node.children = None =>
          LET r == NodeExpand(node, sims)
          IN  /\ r.ret[1] = Len(r.node.children.val)
              /\ SameNumber(r.ret[2], ScoreSum(r.node.children.val))

\* C24: expand returns the number of new children and the negated sum of
\* their scores, that is the amount it added to the node's own total
C24_ExpandReturnsNegatedSum ==
    tree.pc # "idle" =>
      /\ \A node \in Nodes(tree.root_node) : \A sims \in SimStreams :
           node.children = None =>
             LET r == NodeExpand(node, sims)
             IN  /\ r.ret[1] = Len(r.node.children.val)
                 /\ SameNumber(r.ret[2], FNeg(ScoreSum(r.node.children.val)))
      /\ (tree.op = "expand" /\ tree.pc # "panicked") =>
           /\ tree.ret[1] = Len(tree.root_node.children.val)
           /\ SameNumber(tree.ret[2], FNeg(ScoreSum(tree.root_node.children.val)))

\* expand was called and made two children whose scores do not cancel
C24_Witness ==
    /\ tree.pc # "idle"
    /\ tree.pc # "panicked"
    /\ tree.op = "expand"
    /\ tree.ret[1] = 2
    /\ tree.ret[2][1] # 0

\* what one call of step on `node` must do, given the choices sel of the tree
\* policy and the simulation results sims
StepContract(node, sel, sims) ==
    LET r == NodeStep(node, sel, sims)
    IN  IF node.children = None
        THEN r = NodeExpand(node, sims)
        ELSE IF Len(node.children.val) = 0
        THEN r.node = node /\ r.ret = <<0, <<0, 1>>>>
        ELSE LET idx   == sel[1]
                 sub   == NodeStep(node.children.val[idx], Tail(sel), sims)
                 count == sub.ret[1]
                 delta == sub.ret[2]
                 v     == node.iterations
                 s     == node.score
             IN  /\ r.node.children.tag = "Some"
                 /\ Len(r.node.children.val) = Len(node.children.val)
                 /\ r.node.children.val[idx] = sub.node
                 /\ \A j \in 1..Len(node.children.val) :
                      j # idx => r.node.children.val[j] = node.children.val[j]
                 /\ r.node.state = node.state
                 /\ r.node.iterations = v + count
                 /\ SameNumber(r.node.score,
                               << s[1] * v * delta[2] - delta[1] * s[2],
                                  s[2] * delta[2] * (v + count) >>)
                 /\ r.ret[1] = count
                 /\ SameNumber(r.ret[2], << -delta[1], delta[2] >>)

\* the contract at every node a call of step on `node` goes through
RECURSIVE PathContract(_, _, _)
PathContract(node, sel, sims) ==
    /\ StepContract(node, sel, sims)
    /\ \/ node.children = None
       \/ Len(node.children.val) = 0
       \/ PathContract(node.children.val[sel[1]], Tail(sel), sims)

\* C25: step expands an unexpanded node and returns what expand returns,
\* returns (0, 0) and changes nothing on a terminal node, and otherwise steps
\* the one child the tree policy selects, folds (count, delta) into its own
\* visits and score, returns (count, -delta) and leaves the siblings alone
C25_StepContract ==
    tree.op = "step" =>
      \E sims \in SimStreams :
        /\ NodeStep(tree.before, tree.sel, sims) =
             [tag |-> "Ok", node |-> tree.root_node, ret |-> tree.ret]
        /\ PathContract(tree.before, tree.sel, sims)

\* the last step went through the root and through an expanded child of it
\* and expanded a grandchild that has successor states
C25_Witness ==
    /\ tree.pc = "advance"
    /\ tree.op = "step"
    /\ Len(tree.sel) = 2
    /\ tree.ret[1] > 0
    /\ tree.ret[2][1] # 0

\* the first of the children with the highest raw score
RECURSIVE FirstBest(_, _)
FirstBest(children, k) ==
    IF k = 1 THEN 1
    ELSE LET b == FirstBest(children, k - 1)
         IN  IF children[k].score[1] * children[b].score[2]
                  > children[b].score[1] * children[k].score[2]
             THEN k ELSE b

\* C26: advance runs budget steps on the root and then replaces the root by
\* the first of its children with the highest raw score
C26_AdvancePicksBest ==
    (tree.pc = "advanced" /\ tree.op = "select") =>
      /\ tree.i = tree.budget
      /\ LET children == tree.before.children.val
         IN  tree.root_node = children[FirstBest(children, Len(children))]

(***************************************************************************)
(* Properties of the search over Santorini                                 *)
(***************************************************************************)
\* the Build position the rules prescribe after the step from -> to in g
AfterMove(g, from, to) ==
    [phase |-> "Build",
     player1_locs |-> [i \in 1..2 |-> IF g.player = "PlayerOne" /\ g.player1_locs[i] = from
                                      THEN to ELSE g.player1_locs[i]],
     player2_locs |-> [i \in 1..2 |-> IF g.player = "PlayerTwo" /\ g.player2_locs[i] = from
                                      THEN to ELSE g.player2_locs[i]],
     active_loc |-> to,
     board |-> g.board,
     player |-> g.player]

\* the cells next to each cell
AdjacentCells ==
    [p \in AllPoints |->
       { q \in AllPoints : Max(Abs(X(q) - X(p)), Abs(Y(q) - Y(p))) = 1 }]

\* the legal steps <<from, to>> of the player to move, by the rules
RuleMoves(g) ==
    UNION { { <<active_pawns(g)[i].pos, to>> :
                to \in { q \in AdjacentCells[active_pawns(g)[i].pos] :
                           RuleCanMove(g, active_pawns(g)[i], q) } } : i \in 1..2 }

\* the cells the pawn that stepped onto `to` may build on, by the rules
RuleBuilds(g2) ==
    { loc \in AdjacentCells[g2.active_loc] :
        RuleCanBuild(g2, [pos |-> g2.active_loc, player |-> g2.player], loc) }

\* the turns <<from, to, build>> the rules allow in g: a step onto level Three
\* wins and has no build (None), any other step is followed by a build
RuleTurns(g) ==
    UNION { IF level_at(g.board, m[2]) = "Three"
            THEN { <<m[1], m[2], None>> }
            ELSE { <<m[1], m[2], Some(loc)>> : loc \in RuleBuilds(AfterMove(g, m[1], m[2])) } :
            m \in RuleMoves(g) }

\* the state the rules prescribe after a turn
RuleTurnState(g, turn) ==
    IF turn[3] = None THEN NodeStateVictory(g.player)
    ELSE LET after == AfterBuild(AfterMove(g, turn[1], turn[2]), turn[3].val)
         IN  IF RuleMoves(after) # {} THEN NodeStateMove(after)
             ELSE NodeStateVictory(g.player)

\* the turn a child node records
TurnOf(child) ==
    << child.mv.val.from, child.mv.val.to,
       IF child.build = None THEN None ELSE Some(child.build.val.loc) >>

\* C27: the expansion of a Move node has exactly one child per turn the
\* rules allow (a winning step without build, any other step with each build
\* after it), each once and each with the state the rules prescribe; the
\* expansion of a Victory node is empty
C27_ExpansionExact ==
    /\ game.phase = "Move" =>
         LET kids  == SantoriniExpand(SantoriniNodeFrom(game))
             turns == RuleTurns(game)
         IN  /\ ~possible_actions_panics(game)
             /\ \A k \in 1..Len(kids) :
                  /\ kids[k].mv # None
                  /\ TurnOf(kids[k]) \in turns
                  /\ kids[k].game = RuleTurnState(game, TurnOf(kids[k]))
             /\ { TurnOf(kids[k]) : k \in 1..Len(kids) } = turns
             /\ Len(kids) = Cardinality(turns)
    /\ game.phase = "Victory" =>
         SantoriniExpand([mv |-> None, build |-> None,
                          game |-> NodeStateVictory(game.player)]) = <<>>

\* a Move node whose expansion has a child won by height, without build, and
\* a child that continues after a build
C27_Witness ==
    /\ game.phase = "Move"
    /\ LET kids == SantoriniExpand(SantoriniNodeFrom(game))
       IN  /\ \E k \in 1..Len(kids) : kids[k].build = None /\ kids[k].game.tag = "Victory"
           /\ \E k \in 1..Len(kids) : kids[k].build # None /\ kids[k].game.tag = "Move"

\* the indices of the children of node whose state is the Move state g
Matching(node, g) ==
    { k \in 1..Len(node.children.val) : node.children.val[k].game = NodeStateMove(g) }

\* C30: when the MCTS player is to move, prepare replaces a tree it holds by
\* the one child of the root whose state is the current game, and creates a
\* root for the current game when it holds none; for a game that no child of
\* an expanded root stands for, prepare panics
C30_PrepareReconciles ==
    /\ (game.phase = "Move" /\ game.player = ai.plays) =>
         LET prep == AiPrepare(ai.node, game)
         IN  IF ai.node = None
             THEN prep = [tag |-> "Ok", node |-> AiNodeNew(game)]
             ELSE /\ ai.node.val.children # None
                  /\ Cardinality(Matching(ai.node.val, game)) = 1
                  /\ prep.tag = "Ok"
                  /\ \E k \in Matching(ai.node.val, game) :
                       prep.node = AiChild(ai.node.val.children.val[k])
    /\ (/\ ai # Idle
        /\ game.phase = "Move"
        /\ ai.node # None
        /\ ai.node.val.children # None
        /\ Matching(ai.node.val, game) = {}) =>
         AiPrepare(ai.node, game) = Panic("Tree reset!")

\* the player has moved after descending into the child for the game, and a
\* game that none of the children it now holds stands for is at hand
C30_Witness ==
    /\ ai # Idle
    /\ ai.did = "child"
    /\ game.phase = "Move"
    /\ ai.node # None
    /\ ai.node.val.children # None
    /\ Matching(ai.node.val, game) = {}

\* the sum of the levels of the cells of a board
RECURSIVE LevelSumOver(_, _)
LevelSumOver(board, cells) ==
    IF cells = {} THEN 0
    ELSE LET p == CHOOSE q \in cells : TRUE
         IN  LevelToI8(level_at(board, p)) + LevelSumOver(board, cells \ {p})

LevelSum(board) == LevelSumOver(board, AllPoints)

\* the turns of the player to move in g that the rules let end the game
WinningTurns(g) ==
    { turn \in RuleTurns(g) : RuleTurnState(g, turn).tag = "Victory" }

\* C28: simulate returns 1 for a Victory node, whose winner is the player to
\* move in the parent; a playout from a Move node goes on exactly as long as
\* the rules give the player to move no winning turn, and ends with -1 if the
\* player who then wins is the one to move in the node's state, else with 1
C28_SimulateReturns ==
    playout # Idle =>
      /\ playout.pc = "done" => playout.result \in {-1, 1}
      /\ (playout.pc = "done" /\ playout.start = "Victory") =>
           /\ playout.result = 1
           /\ playout.player = game.player
      /\ (playout.pc = "done" /\ playout.start = "Move") =>
           /\ WinningTurns(game) # {}
           /\ \A turn \in WinningTurns(game) :
                LET winner == RuleTurnState(game, turn).player
                IN  /\ winner = playout.player <=> playout.result = -1
                    /\ winner = Other(playout.player) <=> playout.result = 1
      /\ (playout.pc = "run" /\ game.phase = "Move") =>
           LET acts == possible_actions(game)
               wins == WinningTurns(game)
           IN  \A pick \in Draws(acts) :
                 find_action(game, acts, pick).tag = "Victory" <=> wins # {}

\* a playout that the other player won after at least one turn
C28_Witness ==
    /\ playout # Idle
    /\ playout.pc = "done"
    /\ playout.start = "Move"
    /\ playout.result = 1
    /\ playout.turns >= 1
    /\ game.player # playout.player

\* what find_action returns in a running playout is Victory or the position
\* after one turn of the rules, which is not the game it was called with and
\* has a level sum higher by one; level sums do not exceed 4 on each cell
FindActionAdvances ==
    (playout # Idle /\ playout.pc = "run" /\ game.phase = "Move") =>
      LET acts == possible_actions(game)
          next == { AfterBuild(AfterMove(game, turn[1], turn[2]), turn[3].val) :
                      turn \in { t \in RuleTurns(game) : t[3] # None } }
          sum  == LevelSum(game.board)
      IN  /\ sum <= 4 * Cardinality(AllPoints)
          /\ \A pick \in Draws(acts) :
               LET found == find_action(game, acts, pick)
               IN  \/ found.tag = "Victory"
                   \/ /\ found.game # game
                      /\ found.game \in next
                      /\ LevelSum(found.game.board) = sum + 1

\* C29: every call of find_action in a playout reports Victory or advances
\* the game by one turn, raising the bounded sum of the levels by one, and
\* every playout that is followed comes to its return
C29_PlayoutTerminates ==
    /\ []FindActionAdvances
    /\ (playout # Idle /\ playout.pc = "run") ~> (playout.pc \in {"done", "cut"})

\* a playout that has returned after at least two turns of find_action
C29_Witness ==
    /\ playout # Idle
    /\ playout.pc = "done"
    /\ playout.start = "Move"
    /\ last_op = "find_action"
    /\ playout.turns >= 2

C37_SubtreeReuse ==
    [][TreeSelectStep =>
         LET idx == AdvanceChoice(tree.root_node)
             child == tree.root_node.children.val[idx]
         IN  /\ tree'.root_node = child
             /\ tree'.root_node.state = child.state
             /\ tree'.root_node.iterations = child.iterations
             /\ tree'.root_node.score = child.score
             /\ tree'.root_node.children = child.children
             /\ Nodes(tree'.root_node) = Nodes(child)
             /\ tree.root_node \notin Nodes(tree'.root_node)
             /\ tree'.budget = tree.budget
             /\ tree'.sel = <<idx>>]_vars

\* advance has returned with a child that had been stepped into and expanded,
\* one of two children of the old root
C37_Witness ==
    /\ tree.pc = "advanced"
    /\ tree.op = "select"
    /\ Len(tree.before.children.val) = 2
    /\ tree.root_node = tree.before.children.val[tree.sel[1]]
    /\ tree.root_node.children # None
    /\ tree.root_node.iterations > 1

(***************************************************************************)
(* C38: the accounting of iterations (the visits of a node).               *)
(***************************************************************************)
\* the sum of the iterations of the first k nodes of a list
RECURSIVE VisitSum(_, _)
VisitSum(children, k) ==
    IF k = 0 THEN 0 ELSE VisitSum(children, k - 1) + children[k].iterations

\* every node on the path sel from `old` has grown by count in `new`
RECURSIVE PathGrowth(_, _, _, _)
PathGrowth(old, new, sel, count) ==
    /\ new.iterations = old.iterations + count
    /\ HasChildren(old) =>
         /\ HasChildren(new)
         /\ PathGrowth(old.children.val[sel[1]], new.children.val[sel[1]],
                       Tail(sel), count)

\* C38: every expanded node has 1 + the sum of its children's iterations as
\* its iterations; the count a step or an expand returns is the amount by
\* which the iterations of the stepped node have grown, and every node on the
\* selected path has grown by that count
C38_VisitAccounting ==
    tree.pc # "idle" =>
      /\ \A node \in Nodes(tree.root_node) :
           node.children # None =>
             node.iterations = 1 + VisitSum(node.children.val, Len(node.children.val))
      /\ (tree.op \in {"step", "expand"} /\ tree.pc # "panicked") =>
           tree.ret[1] = tree.root_node.iterations - tree.before.iterations
      /\ tree.op = "step" =>
           PathGrowth(tree.before, tree.root_node, tree.sel, tree.ret[1])

\* the last step went two levels down and expanded a grandchild into two
\* nodes: the grandchild, its parent and the root have each grown by two
C38_Witness ==
    /\ tree.pc = "advance"
    /\ tree.op = "step"
    /\ Len(tree.sel) = 2
    /\ tree.ret[1] = 2
    /\ tree.root_node.iterations = tree.before.iterations + 2
    /\ tree.root_node.children.val[tree.sel[1]].children.val[tree.sel[2]].iterations = 3

(***************************************************************************)
(* C33: two searches of the same state with the same seed.                 *)
(***************************************************************************)
\* the two searches have the same budget and the same seed
SameInputs ==
    /\ twin.seeds[1] = twin.seeds[2]
    /\ twin.budgets[1] = twin.budgets[2]

NodeStateOf(g) ==
    IF g.phase = "Victory" THEN NodeStateVictory(g.player) ELSE NodeStateMove(g)

\* the children of the root the MCTS player searches for game g, without
\* their subtrees
RootChildren(g) == SantoriniExpand(AiNodeNew(g))

\* C31: in its Move step the MCTS player replaces its root by one of the
\* root's children and plays the mv of that child; if a Build phase follows,
\* the build of the new root is an action on exactly the Build game that
\* results.  In its Build step it keeps that root and plays its build on the
\* game it is given, without a panic, and the game that results is the state
\* of the root
C31_TurnSynchronized ==
    [][/\ (game.phase = "Move" /\ game.player = ai.plays /\ ai'.did # "panic") =>
            /\ ai'.node # None
            /\ \E root \in {RootChildren(game)} : \E k \in 1..Len(root) :
                 /\ ai'.node.val.mv = root[k].mv
                 /\ ai'.node.val.build = root[k].build
                 /\ ai'.node.val.game = root[k].game
            /\ ai'.node.val.mv # None
            /\ game' = Outcome(MoveApply(game, ai'.node.val.mv.val))
            /\ game'.phase \in {"Build", "Victory"}
            /\ game'.phase = "Build" =>
                 /\ ai'.node.val.build # None
                 /\ ai'.node.val.build.val.game = game'
            /\ game'.phase = "Victory" => ai'.node.val.game = NodeStateOf(game')
       /\ (game.phase = "Build" /\ game.player = ai.plays) =>
            /\ ai' = ai
            /\ ai.node # None
            /\ ai.node.val.build # None
            /\ ai.node.val.build.val.game = game
            /\ game' = Outcome(BuildApply(game, ai.node.val.build.val))
            /\ game'.phase \in {"Move", "Victory"}
            /\ ai.node.val.game = NodeStateOf(game')]_vars

\* the MCTS player has moved and built in its second turn, from a root that
\* prepare took from the tree, and the game is in the Move phase of the
\* other player and is the state of the root
C31_Witness ==
    /\ ai # Idle
    /\ ai.did = "child"
    /\ last_op = "build"
    /\ game.phase = "Move"
    /\ game.player # ai.plays
    /\ ai.node # None
    /\ ai.node.val.game = NodeStateMove(game)
    /\ ai.node.val.children # None

(***************************************************************************)
(* C34, C35, C39, C40: the moves and builds of the games of EngineSpec.    *)
(***************************************************************************)
\* the set of the two locations of a player
LocSet(g, player) == { player_locs(g, player)[1], player_locs(g, player)[2] }

\* the cells that hold a pawn
Occupied(g) == LocSet(g, "PlayerOne") \cup LocSet(g, "PlayerTwo")

\* the locations Pawn<Build>::actions offers
BuildLocs(g) ==
    LET acts == build_actions(g, active_pawn(g))
    IN  { acts[k].loc : k \in 1..Len(acts) }

\* C34: in every Build game the active pawn has a build; the cell the pawn
\* has just left is next to it, holds no pawn, is not Capped, and is one of
\* the cells it can build on
C34_BuildAvailable ==
    /\ [](game.phase = "Build" => Len(build_actions(game, active_pawn(game))) > 0)
    /\ [][(game.phase = "Move" /\ game'.phase = "Build") =>
            LET left == LocSet(game, game.player) \ LocSet(game', game.player)
            IN  /\ Cardinality(left) = 1
                /\ \A c \in left :
                     /\ Distance(c, game'.active_loc) = 1
                     /\ c \notin Occupied(game')
                     /\ level_at(game'.board, c) \in {"Ground", "One", "Two"}
                     /\ can_build(game', active_pawn(game'), c) # None
                     /\ c \in BuildLocs(game')]_vars

\* a Build game in which the active pawn has one cell to build on, a cell of
\* level Two
C34_Witness ==
    /\ game.phase = "Build"
    /\ last_op = "move"
    /\ Cardinality(BuildLocs(game)) = 1
    /\ \A c \in BuildLocs(game) : level_at(game.board, c) = "Two"

LevelsKept(g, h) ==
    \A c \in AllPoints : LevelToI8(level_at(h.board, c)) >= LevelToI8(level_at(g.board, c))

\* C39: the game a build returns, Continue or Victory, has the built cell one
\* level higher than the Build game, every other cell at the level it had,
\* and the four pawns where they were; no step of a play lowers a cell
C39_BuildFrame ==
    /\ [](game.phase = "Build" =>
            \A b \in { build_actions(game, active_pawn(game))[k] :
                         k \in 1..Len(build_actions(game, active_pawn(game))) } :
              \E r \in {BuildApply(game, b)} :
                /\ r.tag \in {"Continue", "Victory"}
                /\ LevelToI8(level_at(r.game.board, b.loc))
                     = LevelToI8(level_at(game.board, b.loc)) + 1
                /\ \A c \in AllPoints \ {b.loc} :
                     level_at(r.game.board, c) = level_at(game.board, c)
                /\ r.game.player1_locs = game.player1_locs
                /\ r.game.player2_locs = game.player2_locs)
    /\ [][(game.phase \in NormalStates /\ game'.phase \in NormalStates \cup {"Victory"})
            => LevelsKept(game, game')]_vars

\* a build has raised a cell to Capped
C39_Witness ==
    /\ game.phase \in {"Move", "Victory"}
    /\ last_op = "build"
    /\ \E c \in AllPoints : level_at(game.board, c) = "Capped"

\* C40: the game a move returns, Build or Victory, has the board of the Move
\* game; the pawn of the mover that stood on from stands on to, at the same
\* index, and the three other pawns are where they were
C40_MoveFrame ==
    game.phase = "Move" =>
      \E acts \in {AllMoveActions(game)} : \A k \in 1..Len(acts) :
        \E r \in {MoveApply(game, acts[k])} :
          LET m    == acts[k]
              old  == player_locs(game, game.player)
              new  == player_locs(r.game, game.player)
          IN  /\ r.tag \in {"Continue", "Victory"}
              /\ r.game.phase = IF r.tag = "Continue" THEN "Build" ELSE "Victory"
              /\ r.game.board = game.board
              /\ \E i \in 1..2 :
                   /\ old[i] = m.from
                   /\ new[i] = m.to
                   /\ new[3 - i] = old[3 - i]
              /\ player_locs(r.game, Other(game.player))
                   = player_locs(game, Other(game.player))

\* a move of the second pawn of a player has won the game
C40_Witness ==
    /\ game.phase = "Victory"
    /\ last_op = "move"
    /\ level_at(game.board, player_locs(game, game.player)[2]) = "Three"

(***************************************************************************)
(* C32: the turn protocol of the driver.                                   *)
(***************************************************************************)
\* the results a step can return for a game: NoMove, or the phase that
\* follows (Victory in place of Build or Move)
PlayerStepTags(g) ==
    CASE g.phase = "PlaceOne" -> {"PlaceTwo"}
      [] g.phase = "PlaceTwo" -> {"Move"}
      [] g.phase = "Move" -> {"Build", "Victory"}
      [] g.phase = "Build" -> {"Move", "Victory"}
      [] OTHER -> {}

\* C32: in the loop of a driver function the selected player is the one
\* game.player() names and has been prepared exactly once, before any step;
\* a step that returns NoMove leaves the game, the player and the count of
\* prepares as they are; any other result makes the driver go on with the
\* returned game in a newly entered function, with no call made yet; after a
\* Victory the driver makes no further call
C32_TurnProtocol ==
    /\ [](driver.pc = "loop" =>
            /\ driver.p = (IF game.player = "PlayerOne" THEN 1 ELSE 2)
            /\ driver.prepares = 1
            /\ ~driver.early)
    /\ [](driver.pc = "enter" =>
            /\ driver.prepares = 0
            /\ driver.steps = 0
            /\ driver.last # "NoMove"
            /\ ~driver.early)
    /\ [](driver.pc = "done" <=> game.phase = "Victory")
    /\ [][driver.pc \in {"enter", "loop"}]_vars
    /\ [][driver.pc = "enter" =>
            /\ driver'.pc = "loop"
            /\ game' = game
            /\ driver'.prepares = 1
            /\ driver'.steps = 0]_vars
    /\ [][driver.pc = "loop" =>
            IF driver'.last = "NoMove"
            THEN /\ game' = game
                 /\ driver'.pc = "loop"
                 /\ driver'.p = driver.p
                 /\ driver'.prepares = driver.prepares
                 /\ driver'.steps = driver.steps + 1
            ELSE /\ game' # game
                 /\ driver'.pc \in {"enter", "done"}
                 /\ driver'.last = game'.phase
                 /\ driver'.last \in PlayerStepTags(game)]_vars

\* the game has ended with a Victory and the driver has stopped; the last
\* function it ran had been entered for the second player
C32_Witness ==
    /\ driver # Idle
    /\ driver.pc = "done"
    /\ game.phase = "Victory"
    /\ driver.last = "Victory"
    /\ game.player = "PlayerTwo"

====
